---- MODULE Spec2Model ----
(***************************************************************************)
(* The v3 Cache of "Challenge 3/v3.py": an in-process key-value cache with *)
(* per-entry TTL, LRU eviction and optional file persistence.              *)
(*                                                                         *)
(* Python values are modelled as tagged records [t |-> type, v |-> data],  *)
(* so that None, floats, strings, tuples and lists stay distinct and the   *)
(* JSON encoding of the snapshot is a real conversion.  Every public       *)
(* operation is one action: it runs with the lock held, so it is atomic    *)
(* with respect to the other operations, and it reads the clock once.      *)
(***************************************************************************)
EXTENDS Integers, Sequences, FiniteSets, TLC

\* ------------------------------------------------------------ bounds
\* Number of distinct non-empty keys the callers use.
NumKeys == 3
\* Largest max_size a configuration is built with.
MaxSize == 2
\* The clock runs from 1 to MaxTime.
MaxTime == 3
\* Number of calls in one behaviour of a cache without persistence.
MaxOps == 4
\* Number of calls and constructions in one behaviour of a cache bound to
\* the storage file, over all configurations.
MaxOpsDisk == 3
\* Number of calls and constructions in one behaviour after a restart.
MaxOpsRestart == 2
\* Number of writes to the storage file that fail in one behaviour.
MaxFail == 1
\* Number of calls and constructions in one behaviour that shows the steps
\* of each save.
MaxOpsSave == 2
\* Number of threads that call one instance.
NumThreads == 2
\* Number of calls in one behaviour of an instance called by several threads.
MaxOpsThreads == 3
\* Number of calls of any kind in one behaviour that shows the wait for the
\* lock (has and size calls go on after them).
MaxOpsFair == 2
\* Number of calls made on the v2 and the v3 Cache side by side.
MaxOpsEquiv == 4

\* ------------------------------------------------------------ values
KeyNames == <<"a", "b", "c", "d", "e", "f">>
Keys == {KeyNames[i] : i \in 1..NumKeys}
EmptyKey == ""

PyNone == [t |-> "NoneType", v |-> 0]
PyFloat(x) == [t |-> "float", v |-> x]
PyBadTTL == [t |-> "str", v |-> 0]

PyStr(s) == [t |-> "str", v |-> s]
PyTuple(s) == [t |-> "tuple", v |-> s]
PyList(s) == [t |-> "list", v |-> s]
PyNoneValue == [t |-> "NoneType", v |-> ""]

\* The payloads callers store: a string and a tuple.
Values == {PyStr("old"), PyTuple("1,2")}
\* The ttl arguments of set: absent, negative, positive, and a
\* non-number (which makes the expiry computation raise TypeError).
TTLArgs == {PyNone, PyFloat(-1), PyFloat(1), PyBadTTL}
DefaultTTLs == {PyNone, PyFloat(2)}
StorageFiles == {PyNone, PyStr("T")}

\* ------------------------------------------------------------ state
VARIABLES
  config,     \* CacheConfig of the current instance
  cache,      \* self._cache: the OrderedDict, as the sequence of its entries
  stats,      \* self._stats
  now,        \* time.time()
  file,       \* the storage file T on disk
  last,       \* the last call: operation, arguments, result
  nops,       \* number of calls made so far
  budget,     \* number of calls the behaviour is explored to
  nfail,      \* number of writes to the storage file that failed so far
  nkeys,      \* history: how many of the keys the callers have used so far
  useOrder,   \* history: keys in order of their last successful get or set
  lastSet,    \* history: per key, the set that is still in force
  ngets,      \* history: number of completed get calls
  save,       \* the _save_to_storage calls in progress and the temp file
  threads,    \* self._lock, and each thread's call in progress
  race,       \* two instances saving to one storage file: names, inodes, writers
  v2          \* a v2 Cache given the same calls: its _cache and what it returned

vars == <<config, cache, stats, now, file, last, nops, budget, nfail, nkeys, useOrder, lastSet, ngets, save, threads, race, v2>>

\* ------------------------------------------------------------ CacheEntry
CacheEntry(key, value, created_at, expires_at, last_accessed) ==
  [key |-> key, value |-> value, created_at |-> created_at,
   expires_at |-> expires_at, last_accessed |-> last_accessed]

\* Mutant: an entry counts as expired from the instant expires_at on.
is_expired_at(entry, t) ==
  IF entry.expires_at = PyNone THEN FALSE ELSE t >= entry.expires_at.v

is_expired(entry, t) ==
  IF entry.expires_at = PyNone THEN FALSE ELSE t > entry.expires_at.v

\* Mutant: an access also pushes the expiry back (a sliding expiration).
update_access_time_extends(entry, t) ==
  [entry EXCEPT !.last_accessed = t,
                !.expires_at = IF @.t = "float" THEN [@ EXCEPT !.v = @ + 1] ELSE @]

update_access_time(entry, t) == [entry EXCEPT !.last_accessed = t]

\* json.dump / json.load of one Python value.
JsonDump(x) ==
  CASE x.t = "str" -> [t |-> "string", v |-> x.v]
    [] x.t = "tuple" -> [t |-> "array", v |-> x.v]
    [] x.t = "list" -> [t |-> "array", v |-> x.v]
    [] x.t = "NoneType" -> [t |-> "null", v |-> x.v]
    [] x.t = "float" -> [t |-> "number", v |-> x.v]

JsonLoad(j) ==
  CASE j.t = "string" -> [t |-> "str", v |-> j.v]
    [] j.t = "array" -> [t |-> "list", v |-> j.v]
    [] j.t = "null" -> [t |-> "NoneType", v |-> j.v]
    [] j.t = "number" -> [t |-> "float", v |-> j.v]

to_dict(entry) ==
  [key |-> JsonDump(PyStr(entry.key)), value |-> JsonDump(entry.value),
   created_at |-> entry.created_at, expires_at |-> JsonDump(entry.expires_at),
   last_accessed |-> entry.last_accessed]

from_dict(data) ==
  CacheEntry(JsonLoad(data.key).v, JsonLoad(data.value), data.created_at,
             JsonLoad(data.expires_at), data.last_accessed)

\* Python truth value of an Optional[float].
Truthy(x) == x.t = "float" /\ x.v # 0

\* ------------------------------------------------------------ CacheConfig
\* The max_size arguments callers pass to CacheConfig.
MaxSizeArgs == (0 - 1)..MaxSize

\* Mutant: CacheConfig.__init__ accepts every max_size.
valid_max_size_any(max_size) == TRUE

\* CacheConfig.__init__ raises ValueError unless this holds.
ValidMaxSize(max_size) == ~(max_size <= 0)

\* Mutant: a storage file enables persistence whatever the flag says.
config_enables_on_file(max_size, default_ttl, storage_file, enable_persistence, auto_cleanup) ==
  [max_size |-> max_size, default_ttl |-> default_ttl, storage_file |-> storage_file,
   enable_persistence |-> (storage_file # PyNone),
   auto_cleanup |-> auto_cleanup]

\* CacheConfig.__init__ for a max_size that passes the validation.
CacheConfig(max_size, default_ttl, storage_file, enable_persistence, auto_cleanup) ==
  [max_size |-> max_size, default_ttl |-> default_ttl, storage_file |-> storage_file,
   enable_persistence |-> (enable_persistence /\ storage_file # PyNone),
   auto_cleanup |-> auto_cleanup]

\* ------------------------------------------------------------ OrderedDict
DictKeys(d) == {d[i].key : i \in 1..Len(d)}
DictGet(d, k) == CHOOSE e \in {d[i] : i \in 1..Len(d)} : e.key = k
DictDel(d, k) == SelectSeq(d, LAMBDA e : e.key # k)
\* Mutant: a new key goes to the front of the order.
dict_set_first(d, k, e) ==
  IF k \in DictKeys(d) THEN [i \in 1..Len(d) |-> IF d[i].key = k THEN e ELSE d[i]]
  ELSE <<e>> \o d

\* d[k] = e: in place when k is present, at the end otherwise.
DictSet(d, k, e) ==
  IF k \in DictKeys(d) THEN [i \in 1..Len(d) |-> IF d[i].key = k THEN e ELSE d[i]]
  ELSE Append(d, e)
\* Mutant: move_to_end leaves the key where it is.
move_to_end_stays(d, k) == d

move_to_end(d, k) == Append(DictDel(d, k), DictGet(d, k))

\* ------------------------------------------------------------ storage
AbsentFile == [kind |-> "absent", version |-> "", timestamp |-> 0, entries |-> <<>>]

\* Mutant: the snapshot lists the entries most recently used first.
snapshot_newest_first(d, t) ==
  [kind |-> "json", version |-> "1.0", timestamp |-> t,
   entries |-> [i \in 1..Len(d) |-> to_dict(d[Len(d) + 1 - i])]]

Snapshot(d, t) ==
  [kind |-> "json", version |-> "1.0", timestamp |-> t,
   entries |-> [i \in 1..Len(d) |-> to_dict(d[i])]]

\* No save in progress and no temp file.
NoSave(steps) == [steps |-> steps, pc |-> "idle", todo |-> <<>>, temp |-> AbsentFile]

\* The helpers work on the instance state  self = [cache, stats, file, saves]
\* (saves counts the calls of _save_to_storage made by the operation, writes
\* lists the snapshots they wrote).
Self ==
  [cache |-> cache, stats |-> stats, file |-> file, saves |-> 0, failed |-> 0,
   writes |-> <<>>]

\* Mutant: a write that fails takes the store with it.
save_failure_fatal(self, io) ==
  IF config.storage_file = PyNone THEN [self EXCEPT !.saves = @ + 1]
  ELSE IF io[self.saves + 1] THEN
    [self EXCEPT !.file = Snapshot(self.cache, now), !.saves = @ + 1,
                 !.writes = Append(@, Snapshot(self.cache, now))]
  ELSE [self EXCEPT !.saves = @ + 1, !.failed = @ + 1, !.cache = <<>>]

\* io[n] tells whether the n-th write of the operation succeeds (an open,
\* json.dump or os.replace that raises leaves the storage file as it was).
save_to_storage(self, io) ==
  IF config.storage_file = PyNone THEN [self EXCEPT !.saves = @ + 1]
  ELSE IF io[self.saves + 1] THEN
    [self EXCEPT !.file = Snapshot(self.cache, now), !.saves = @ + 1,
                 !.writes = Append(@, Snapshot(self.cache, now))]
  ELSE [self EXCEPT !.saves = @ + 1, !.failed = @ + 1]

\* Mutant: the eviction counts but removes nothing.
evict_lru_keeps(self) ==
  IF self.cache = <<>> THEN self ELSE [self EXCEPT !.stats.evictions = @ + 1]

\* Mutant: the eviction removes the entry accessed last (the last maximum of
\* last_accessed) instead of the first minimum.
evict_lru_newest(self) ==
  IF self.cache = <<>> THEN self
  ELSE
    LET d == self.cache
        i == CHOOSE i \in 1..Len(d) :
               /\ \A j \in 1..Len(d) : d[i].last_accessed >= d[j].last_accessed
               /\ \A j \in (i + 1)..Len(d) : d[j].last_accessed < d[i].last_accessed
    IN [self EXCEPT !.cache = DictDel(d, d[i].key),
                    !.stats.evictions = @ + 1]

evict_lru(self) ==
  IF self.cache = <<>> THEN self
  ELSE
    LET d == self.cache
        i == CHOOSE i \in 1..Len(d) :
               /\ \A j \in 1..Len(d) : d[i].last_accessed <= d[j].last_accessed
               /\ \A j \in 1..(i - 1) : d[j].last_accessed > d[i].last_accessed
    IN [self EXCEPT !.cache = DictDel(d, d[i].key),
                    !.stats.evictions = @ + 1]

\* Mutant: a cleanup pass counts one expiration however many entries it removes.
cleanup_expired_once(self, io) ==
  LET d == self.cache
      kept == SelectSeq(d, LAMBDA e : ~is_expired(e, now))
      n == Len(d) - Len(kept)
      s1 == [self EXCEPT !.cache = kept,
                         !.stats.expirations = @ + (IF n > 0 THEN 1 ELSE 0)]
  IN IF n > 0 /\ config.enable_persistence THEN save_to_storage(s1, io) ELSE s1

cleanup_expired(self, io) ==
  LET d == self.cache
      kept == SelectSeq(d, LAMBDA e : ~is_expired(e, now))
      n == Len(d) - Len(kept)
      s1 == [self EXCEPT !.cache = kept, !.stats.expirations = @ + n]
  IN IF n > 0 /\ config.enable_persistence THEN save_to_storage(s1, io) ELSE s1

\* The fields CacheEntry.from_dict reads from an entry of the snapshot, and
\* the exception it raises on an entry: KeyError for a missing field.
EntryFields == {"key", "value", "created_at", "expires_at", "last_accessed"}
FromDictRaises(data) ==
  IF EntryFields \subseteq DOMAIN data THEN "none" ELSE "KeyError"

\* Mutant: an entry that cannot be rebuilt ends the loop over the entries.
entry_error_aborts(rest) == <<>>

\* The inner except clause of the load: `continue` with the entries after
\* the one that raised.
EntryErrorContinues(rest) == rest

RECURSIVE LoadEntries(_, _, _)
LoadEntries(d, entries, t) ==
  IF entries = <<>> THEN d
  ELSE IF FromDictRaises(Head(entries)) # "none"
  THEN LoadEntries(d, EntryErrorContinues(Tail(entries)), t)
  ELSE
    LET entry == from_dict(Head(entries))
    IN IF Truthy(entry.expires_at) /\ t > entry.expires_at.v
       THEN LoadEntries(d, Tail(entries), t)
       ELSE LoadEntries(DictSet(d, entry.key, entry), Tail(entries), t)

\* What the storage file holds when it is not a snapshot: text that is not
\* JSON ("garbage", and "partial" for a snapshot cut short), JSON that is
\* not a mapping ("array"), a mapping without 'entries' ("noentries").
CorruptFiles ==
  {[AbsentFile EXCEPT !.kind = k] : k \in {"garbage", "array", "noentries"}}

\* The exception json.load(f) raises on the content, "none" if it parses.
JsonError(f) == IF f.kind \in {"garbage", "partial"} THEN "JSONDecodeError" ELSE "none"

\* isinstance(data, dict) and 'entries' in data
ValidShape(f) == f.kind = "json"

\* Mutant: the load only handles the errors of the operating system.
load_catches_oserror(exc) == exc = "OSError"

\* The subclasses of Exception that the statements of the load can raise.
LoadExceptions == {"JSONDecodeError", "OSError", "TypeError"}

\* The except clauses of _load_from_storage: json.JSONDecodeError, then
\* Exception.
LoadCatches(exc) == exc = "JSONDecodeError" \/ exc \in LoadExceptions

\* The exception that leaves _load_from_storage, and with it Cache.__init__.
LoadRaises(cfg, f) ==
  IF cfg.storage_file = PyNone \/ f.kind = "absent" THEN "none"
  ELSE IF JsonError(f) # "none" /\ ~LoadCatches(JsonError(f)) THEN JsonError(f)
  ELSE "none"

load_from_storage(cfg, f, t) ==
  IF cfg.storage_file = PyNone \/ f.kind = "absent" THEN <<>>
  ELSE IF JsonError(f) # "none" THEN <<>>
  ELSE IF ~ValidShape(f) THEN <<>>
  ELSE LoadEntries(<<>>, f.entries, t)

ZeroStats == [hits |-> 0, misses |-> 0, evictions |-> 0, expirations |-> 0]

\* ------------------------------------------------------------ threads
\* The threads that call one instance.  Each is outside any call ("idle") or
\* inside the `with self._lock:` block of its call ("in"); `locked` is the
\* state of self._lock.
Threads == 1..NumThreads
IdleThread == [pc |-> "idle", call |-> <<>>, at |-> 0, seen |-> <<>>, ret |-> <<>>]
NoThreads == [locked |-> FALSE, run |-> [t \in Threads |-> IdleThread]]

\* No second instance is saving to the storage file.
NoRace == [final |-> 0, tmp |-> 0, inodes |-> <<>>, stores |-> <<>>, writers |-> <<>>]

\* No v2 Cache is run beside the instance.
NoV2 == [cache |-> <<>>, returned |-> PyNoneValue, invalid |-> FALSE, back |-> FALSE]

\* ------------------------------------------------------------ history
Call(op, key, result, path, saves) ==
  [op |-> op, key |-> key, result |-> result, path |-> path, saves |-> saves]

NoSet == [on |-> FALSE, value |-> PyNoneValue, t |-> 0, arg |-> PyNone, ttl |-> PyNone]
NoSets == [k \in Keys |-> NoSet]
Restrict(order, d) == SelectSeq(order, LAMBDA k : k \in DictKeys(d))
Touch(order, k) == Append(SelectSeq(order, LAMBDA x : x # k), k)

\* The code never compares or inspects keys, so the callers' keys are
\* interchangeable: a behaviour uses them in the order a, b, c, ...
KeyIndex(k) == CHOOSE i \in 1..NumKeys : KeyNames[i] = k
Usable == {KeyNames[i] : i \in 1..(IF nkeys < NumKeys THEN nkeys + 1 ELSE NumKeys)}
Use(k) == nkeys' = (IF KeyIndex(k) > nkeys THEN KeyIndex(k) ELSE nkeys)

\* One more call: the behaviour is explored to `budget` calls.
Step == nops < budget /\ nops' = nops + 1 /\ UNCHANGED <<config, budget, threads, race, v2>>

\* The failed writes of the operation count against MaxFail.
Fail(self) == nfail + self.failed <= MaxFail /\ nfail' = nfail + self.failed

\* The instance state the operation leaves.  A behaviour either takes each
\* save as part of the step of its operation (save.steps is FALSE), or shows
\* the steps of each save: the operation then leaves its saves to be done,
\* and returns when the last one has ended.
Leave(self) ==
  /\ cache' = self.cache
  /\ stats' = self.stats
  /\ Fail(self)
  /\ IF save.steps /\ self.writes # <<>>
     THEN /\ file' = file
          /\ save' = [save EXCEPT !.pc = "open", !.todo = self.writes]
     ELSE /\ file' = self.file
          /\ save' = save

\* ------------------------------------------------------------ operations
\* Each body is the code of the operation under the lock: the instance state
\* it leaves, the value it returns and the path it took.
Ret(self, result, path) == [self |-> self, result |-> result, path |-> path]

\* Mutant: the default ttl of the configuration overrides the argument.
effective_ttl_default_first(ttl, default_ttl) ==
  IF default_ttl # PyNone THEN default_ttl ELSE ttl

\* effective_ttl = ttl if ttl is not None else self.config.default_ttl
effective_ttl(ttl, default_ttl) == IF ttl # PyNone THEN ttl ELSE default_ttl

\* Mutant: a set of a key not in the store evicts whether or not the store
\* is full.
set_always_evicts(key, value, ttl, io) ==
  LET s1 == IF config.auto_cleanup THEN cleanup_expired(Self, io) ELSE Self
      eff == effective_ttl(ttl, config.default_ttl)
      s2 == IF key \notin DictKeys(s1.cache)
            THEN evict_lru(cleanup_expired(s1, io))
            ELSE s1
  IN IF eff.t \notin {"float", "NoneType"}
     THEN Ret(s2, FALSE, "Exception")
     ELSE
       LET expires_at == IF eff # PyNone THEN PyFloat(now + eff.v) ELSE PyNone
           entry == CacheEntry(key, value, now, expires_at, now)
           s3 == [s2 EXCEPT !.cache = DictSet(DictDel(s2.cache, key), key, entry)]
           s4 == IF config.enable_persistence THEN save_to_storage(s3, io) ELSE s3
       IN Ret(s4, TRUE, IF key \in DictKeys(s2.cache) THEN "update" ELSE "insert")

SetBody(key, value, ttl, io) ==
  LET s1 == IF config.auto_cleanup THEN cleanup_expired(Self, io) ELSE Self
      eff == effective_ttl(ttl, config.default_ttl)
      s2 == IF key \notin DictKeys(s1.cache) /\ Len(s1.cache) >= config.max_size
            THEN LET c == cleanup_expired(s1, io)
                 IN IF Len(c.cache) >= config.max_size THEN evict_lru(c) ELSE c
            ELSE s1
  IN IF eff.t \notin {"float", "NoneType"}
     THEN Ret(s2, FALSE, "Exception")
     ELSE
       LET expires_at == IF eff # PyNone THEN PyFloat(now + eff.v) ELSE PyNone
           entry == CacheEntry(key, value, now, expires_at, now)
           s3 == [s2 EXCEPT !.cache = DictSet(DictDel(s2.cache, key), key, entry)]
           s4 == IF config.enable_persistence THEN save_to_storage(s3, io) ELSE s3
       IN Ret(s4, TRUE, IF key \in DictKeys(s2.cache) THEN "update" ELSE "insert")

\* Mutant: a get that finds the entry expired counts no miss.
get_expired_uncounted(key, default, io) ==
  IF key \notin DictKeys(cache)
  THEN Ret([Self EXCEPT !.stats.misses = @ + 1], default, "absent")
  ELSE
    LET entry == DictGet(cache, key)
    IN IF is_expired(entry, now)
       THEN LET s1 == [Self EXCEPT !.cache = DictDel(cache, key),
                                   !.stats.expirations = @ + 1]
            IN Ret(IF config.enable_persistence THEN save_to_storage(s1, io) ELSE s1,
                   default, "expired")
       ELSE Ret([Self EXCEPT
                   !.cache = move_to_end(
                               DictSet(cache, key, update_access_time(entry, now)), key),
                   !.stats.hits = @ + 1],
                entry.value, "hit")

\* Mutant: a hit refreshes last_accessed but leaves the entry where it is.
get_keeps_position(key, default, io) ==
  IF key \notin DictKeys(cache)
  THEN Ret([Self EXCEPT !.stats.misses = @ + 1], default, "absent")
  ELSE
    LET entry == DictGet(cache, key)
    IN IF is_expired(entry, now)
       THEN LET s1 == [Self EXCEPT !.cache = DictDel(cache, key),
                                   !.stats.expirations = @ + 1,
                                   !.stats.misses = @ + 1]
            IN Ret(IF config.enable_persistence THEN save_to_storage(s1, io) ELSE s1,
                   default, "expired")
       ELSE Ret([Self EXCEPT
                   !.cache = DictSet(cache, key, update_access_time(entry, now)),
                   !.stats.hits = @ + 1],
                entry.value, "hit")

GetBody(key, default, io) ==
  IF key \notin DictKeys(cache)
  THEN Ret([Self EXCEPT !.stats.misses = @ + 1], default, "absent")
  ELSE
    LET entry == DictGet(cache, key)
    IN IF is_expired(entry, now)
       THEN LET s1 == [Self EXCEPT !.cache = DictDel(cache, key),
                                   !.stats.expirations = @ + 1,
                                   !.stats.misses = @ + 1]
            IN Ret(IF config.enable_persistence THEN save_to_storage(s1, io) ELSE s1,
                   default, "expired")
       ELSE Ret([Self EXCEPT
                   !.cache = move_to_end(
                               DictSet(cache, key, update_access_time(entry, now)), key),
                   !.stats.hits = @ + 1],
                entry.value, "hit")

\* Mutant: a has that finds the entry refreshes it as get does.
has_touches(key, io) ==
  IF key \notin DictKeys(cache)
  THEN Ret(Self, FALSE, "absent")
  ELSE
    LET entry == DictGet(cache, key)
    IN IF is_expired(entry, now)
       THEN LET s1 == [Self EXCEPT !.cache = DictDel(cache, key),
                                   !.stats.expirations = @ + 1]
            IN Ret(IF config.enable_persistence THEN save_to_storage(s1, io) ELSE s1,
                   FALSE, "expired")
       ELSE Ret([Self EXCEPT
                   !.cache = move_to_end(
                               DictSet(cache, key, update_access_time(entry, now)), key)],
                TRUE, "hit")

HasBody(key, io) ==
  IF key \notin DictKeys(cache)
  THEN Ret(Self, FALSE, "absent")
  ELSE
    LET entry == DictGet(cache, key)
    IN IF is_expired(entry, now)
       THEN LET s1 == [Self EXCEPT !.cache = DictDel(cache, key),
                                   !.stats.expirations = @ + 1]
            IN Ret(IF config.enable_persistence THEN save_to_storage(s1, io) ELSE s1,
                   FALSE, "expired")
       ELSE Ret(Self, TRUE, "hit")

\* Mutant: delete treats an expired entry as get does: it is removed and
\* counted as an expiration, and the key is reported as not found.
delete_checks_expiry(key, io) ==
  IF key \in DictKeys(cache)
  THEN LET expired == is_expired(DictGet(cache, key), now)
           s1 == [Self EXCEPT !.cache = DictDel(cache, key),
                              !.stats.expirations = @ + (IF expired THEN 1 ELSE 0)]
       IN Ret(IF config.enable_persistence THEN save_to_storage(s1, io) ELSE s1,
              ~expired, "present")
  ELSE Ret(Self, FALSE, "absent")

\* Mutant: a delete that removes the key starts the counters afresh.
delete_resets_stats(key, io) ==
  IF key \in DictKeys(cache)
  THEN LET s1 == [Self EXCEPT !.cache = DictDel(cache, key), !.stats = ZeroStats]
       IN Ret(IF config.enable_persistence THEN save_to_storage(s1, io) ELSE s1,
              TRUE, "present")
  ELSE Ret(Self, FALSE, "absent")

DeleteBody(key, io) ==
  IF key \in DictKeys(cache)
  THEN LET s1 == [Self EXCEPT !.cache = DictDel(cache, key)]
       IN Ret(IF config.enable_persistence THEN save_to_storage(s1, io) ELSE s1,
              TRUE, "present")
  ELSE Ret(Self, FALSE, "absent")

\* Mutant: clear also resets the counters.
clear_resets_stats(io) ==
  LET s1 == [Self EXCEPT !.cache = <<>>, !.stats = ZeroStats]
  IN Ret(IF config.enable_persistence THEN save_to_storage(s1, io) ELSE s1,
         PyNoneValue, "ok")

\* clear returns None.
ClearBody(io) ==
  LET s1 == [Self EXCEPT !.cache = <<>>]
  IN Ret(IF config.enable_persistence THEN save_to_storage(s1, io) ELSE s1,
         PyNoneValue, "ok")

\* The floats of get_stats.  A positive float is a pair <<m, e>> that stands
\* for m * 2^-e, with m its significand of 53 bits.  A number too long for
\* an integer here is the sequence of its digits in base 256, from the
\* lowest to the highest, the highest not 0.
Pow2(k) ==
  <<1, 2, 4, 8, 16, 32, 64, 128, 256, 512, 1024, 2048, 4096, 8192, 16384, 32768,
    65536, 131072, 262144, 524288, 1048576, 2097152, 4194304, 8388608,
    16777216, 33554432, 67108864, 134217728, 268435456, 536870912,
    1073741824>>[k + 1]

At(p, i) == IF i \in 1..Len(p) THEN p[i] ELSE 0

\* Bit k of p (bit 0 is the lowest), and the 8 bits from bit k on.
Bit(p, k) == (At(p, k \div 8 + 1) \div Pow2(k % 8)) % 2
Limb8(p, k) ==
  (At(p, k \div 8 + 1) \div Pow2(k % 8) + At(p, k \div 8 + 2) * Pow2(8 - (k % 8))) % 256

BitLen(p) ==
  8 * (Len(p) - 1) + (CHOOSE k \in 1..8 : Pow2(k - 1) <= p[Len(p)] /\ p[Len(p)] < Pow2(k))

AnyBelow(p, k) == \E j \in 0..(k - 1) : Bit(p, j) = 1

RECURSIVE MulSmall(_, _, _)
MulSmall(p, c, carry) ==
  IF p = <<>>
  THEN (IF carry = 0 THEN <<>> ELSE <<carry % 256>> \o MulSmall(<<>>, c, carry \div 256))
  ELSE LET v == Head(p) * c + carry
       IN <<v % 256>> \o MulSmall(Tail(p), c, v \div 256)

RECURSIVE Inc(_)
Inc(p) ==
  IF p = <<>> THEN <<1>>
  ELSE IF Head(p) < 255 THEN <<Head(p) + 1>> \o Tail(p)
  ELSE <<0>> \o Inc(Tail(p))

\* A significand rounded up: if it overflows to 2^53 it is 2^52 one binade
\* higher.
Carry(m, e) ==
  LET n == Inc(m)
  IN IF n = <<0, 0, 0, 0, 0, 0, 32>> THEN <<(<<0, 0, 0, 0, 0, 0, 16>>), e - 1>>
     ELSE <<n, e>>

\* p * 2^-e rounded to 53 bits, to the nearest and to the even one of two
\* equally near; sticky says that p is itself cut short of a longer number.
Round53(p, sticky, e) ==
  LET d == BitLen(p) - 53
      high == [i \in 1..7 |-> Limb8(p, d + 8 * (i - 1))]
      up == /\ Bit(p, d - 1) = 1
            /\ AnyBelow(p, d - 1) \/ sticky \/ Bit(p, d) = 1
  IN IF d <= 0 THEN <<p, e>>
     ELSE IF up THEN Carry(high, e - d) ELSE <<high, e - d>>

\* The long division r / t, n digits of base 256 at a time.
RECURSIVE DivLimbs(_, _, _, _)
DivLimbs(r, t, n, acc) ==
  IF n = 0 THEN <<acc, r>>
  ELSE DivLimbs((r * 256) % t, t, n - 1, <<(r * 256) \div t>> \o acc)

\* hits / total_requests for 0 < hits <= total_requests < 2^23: the
\* quotient is scaled into [1, 2), the long division gives 56 of its bits,
\* and these are rounded to 53, with what the division leaves.
FloatDiv(h, t) ==
  LET z == CHOOSE k \in 0..23 : h * Pow2(k) >= t /\ (k = 0 \/ h * Pow2(k - 1) < t)
      r0 == h * Pow2(z)
      d == DivLimbs((r0 * 128) % t, t, 6, <<(r0 * 128) \div t>>)
  IN Round53(d[1], d[2] # 0, 55 + z)

\* x * 100
FloatMul100(x) == Round53(MulSmall(x[1], 100, 0), FALSE, x[2])

\* f"{x:.2f}" for 0 < x <= 100, as the number of hundredths it shows: the
\* exact value of the float rounded to the nearest hundredth, to the even
\* one of two equally near.
Format2f(x) ==
  LET q == MulSmall(x[1], 100, 0)
      e == x[2]
      n == Limb8(q, e) + 256 * Limb8(q, e + 8)
      up == Bit(q, e - 1) = 1 /\ (AnyBelow(q, e - 1) \/ n % 2 = 1)
  IN IF up THEN n + 1 ELSE n

\* The hit_rate string of get_stats, f"{hit_rate:.2f}%", as the number of
\* hundredths of a percent it shows.  hit_rate = hits / total_requests * 100
\* is computed in floats, each operation rounded to 53 bits, and formatted
\* from the float that results (hits = 1, misses = 31 is 3.125 and shows
\* 3.12; hits = 23, misses = 137 is 14.374999999999998 and shows 14.37).
\* Without requests, and without hits, it shows 0.00.  The integers here
\* carry the division for fewer than 2^23 requests.
HitRate(hits, misses) ==
  LET total_requests == hits + misses
  IN [t |-> "str",
      v |-> IF total_requests > 0 /\ hits > 0
            THEN Format2f(FloatMul100(FloatDiv(hits, total_requests)))
            ELSE 0]

\* size, keys and get_stats: the cleanup they share, then the value returned.
ObserveBody(op, io) ==
  LET s1 == IF config.auto_cleanup THEN cleanup_expired(Self, io) ELSE Self
      d == s1.cache
  IN Ret(s1,
         CASE op = "size" -> Len(d)
           [] op = "keys" -> [i \in 1..Len(d) |-> d[i].key]
           [] op = "get_stats" ->
                [size |-> Len(d), max_size |-> config.max_size,
                 hits |-> s1.stats.hits, misses |-> s1.stats.misses,
                 hit_rate |-> HitRate(s1.stats.hits, s1.stats.misses),
                 evictions |-> s1.stats.evictions,
                 expirations |-> s1.stats.expirations],
         "ok")

\* ------------------------------------------------------------ actions
\* The configurations instances are built with; enable_persistence is left
\* at its default (True), so persistence is on exactly when a storage file
\* is given.
Configs ==
  {CacheConfig(m, d, s, TRUE, a) :
     m \in {x \in MaxSizeArgs : ValidMaxSize(x)},
     d \in DefaultTTLs, s \in StorageFiles, a \in BOOLEAN}

\* The configurations with a storage file and enable_persistence=False.
ConfigsOff ==
  {CacheConfig(m, PyNone, s, FALSE, a) :
     m \in {x \in MaxSizeArgs : ValidMaxSize(x)},
     s \in StorageFiles \ {PyNone}, a \in BOOLEAN}

\* Cache.__init__ of the first instance: no storage file exists yet.
InitCache ==
  /\ now = 1
  /\ file = AbsentFile
  /\ nops = 0
  /\ nkeys = 0
  /\ nfail = 0
  /\ cache = <<>>
  /\ stats = ZeroStats
  /\ useOrder = <<>>
  /\ lastSet = NoSets
  /\ ngets = 0
  /\ last = Call("init", EmptyKey, 0, "new", 0)

Init ==
  /\ config \in Configs
  /\ budget = (IF config.enable_persistence THEN MaxOpsDisk ELSE MaxOps)
  /\ save = NoSave(FALSE)
  /\ threads = NoThreads
  /\ race = NoRace
  /\ v2 = NoV2
  /\ InitCache

\* Cache.__init__ of a later instance, constructed on the storage file the
\* previous instance wrote; the result recorded is the number of entries loaded.
\* If the load lets an exception out, the constructor raises it and there is
\* no new instance.
Construct(cfg) ==
  /\ nops < budget
  /\ nops' = nops + 1
  /\ config.enable_persistence
  /\ IF cfg.enable_persistence /\ LoadRaises(cfg, file) # "none"
     THEN /\ last' = Call("init", EmptyKey, 0, LoadRaises(cfg, file), 0)
          /\ UNCHANGED <<config, cache, stats, useOrder, lastSet, ngets>>
     ELSE /\ config' = cfg
          /\ cache' = IF cfg.enable_persistence
                      THEN load_from_storage(cfg, file, now) ELSE <<>>
          /\ stats' = ZeroStats
          /\ last' = Call("init", EmptyKey, Len(cache'), "new", 0)
          /\ useOrder' = <<>>
          /\ lastSet' = NoSets
          /\ ngets' = 0
  /\ save' = [save EXCEPT !.pc = "idle", !.todo = <<>>]
  /\ UNCHANGED <<now, file, budget, nfail, nkeys, threads, race, v2>>

\* Mutant: the key is validated after the cleanup of set has run.
set_invalid_cleans(value, ttl) ==
  /\ Step
  /\ LET s1 == IF config.auto_cleanup THEN cleanup_expired(Self, <<TRUE, TRUE>>) ELSE Self
     IN /\ Leave(s1)
        /\ useOrder' = Restrict(useOrder, s1.cache)
  /\ last' = Call("set", EmptyKey, FALSE, "ValueError", 0)
  /\ UNCHANGED <<now, nkeys, lastSet, ngets>>

\* CacheConfig(max_size) with a max_size that fails the validation raises
\* ValueError: no configuration exists, so no instance is constructed, and
\* the running instance is as before.
ConfigInvalid(max_size) ==
  /\ Step
  /\ ~ValidMaxSize(max_size)
  /\ last' = Call("CacheConfig", EmptyKey, max_size, "ValueError", 0)
  /\ UNCHANGED <<cache, stats, now, file, nfail, nkeys, useOrder, lastSet, ngets, save>>

\* set with an empty key raises ValueError before the lock is taken.
SetInvalid(value, ttl) ==
  /\ Step
  /\ last' = Call("set", EmptyKey, FALSE, "ValueError", 0)
  /\ UNCHANGED <<cache, stats, now, file, nfail, nkeys, useOrder, lastSet, ngets, save>>

Set(key, value, ttl, io) ==
  /\ Step
  /\ Use(key)
  /\ LET r == SetBody(key, value, ttl, io)
     IN /\ Leave(r.self)
        /\ last' = Call("set", key, r.result, r.path, r.self.saves)
        /\ useOrder' = Restrict(IF r.result THEN Touch(useOrder, key) ELSE useOrder,
                                r.self.cache)
        /\ lastSet' = [k \in Keys |->
                         IF k = key /\ r.result
                         THEN [on |-> TRUE, value |-> value, t |-> now, arg |-> ttl,
                               ttl |-> IF ttl # PyNone THEN ttl ELSE config.default_ttl]
                         ELSE IF /\ k \in DictKeys(cache)
                                 /\ k \notin DictKeys(r.self.cache)
                                 /\ ~is_expired(DictGet(cache, k), now)
                         THEN NoSet
                         ELSE lastSet[k]]
  /\ UNCHANGED <<now, ngets>>

Get(key, default, io) ==
  /\ Step
  /\ Use(key)
  /\ ngets' = ngets + 1
  /\ LET r == GetBody(key, default, io)
     IN /\ Leave(r.self)
        /\ last' = Call("get", key, r.result, r.path, r.self.saves)
        /\ useOrder' = IF r.path = "hit" THEN Touch(useOrder, key)
                       ELSE Restrict(useOrder, r.self.cache)
  /\ UNCHANGED <<now, lastSet>>

Has(key, io) ==
  /\ Step
  /\ Use(key)
  /\ LET r == HasBody(key, io)
     IN /\ Leave(r.self)
        /\ last' = Call("has", key, r.result, r.path, r.self.saves)
        /\ useOrder' = Restrict(useOrder, r.self.cache)
  /\ UNCHANGED <<now, lastSet, ngets>>

Delete(key, io) ==
  /\ Step
  /\ Use(key)
  /\ LET r == DeleteBody(key, io)
     IN /\ Leave(r.self)
        /\ last' = Call("delete", key, r.result, r.path, r.self.saves)
        /\ useOrder' = Restrict(useOrder, r.self.cache)
  /\ lastSet' = [lastSet EXCEPT ![key] = NoSet]
  /\ UNCHANGED <<now, ngets>>

Clear(io) ==
  /\ Step
  /\ LET r == ClearBody(io)
     IN /\ Leave(r.self)
        /\ last' = Call("clear", EmptyKey, r.result, r.path, r.self.saves)
  /\ useOrder' = <<>>
  /\ lastSet' = NoSets
  /\ UNCHANGED <<now, nkeys, ngets>>

Observe(op, io) ==
  /\ Step
  /\ LET r == ObserveBody(op, io)
     IN /\ Leave(r.self)
        /\ last' = Call(op, EmptyKey, r.result, r.path, r.self.saves)
        /\ useOrder' = Restrict(useOrder, r.self.cache)
  /\ UNCHANGED <<now, nkeys, lastSet, ngets>>

Size(io) == Observe("size", io)
ListKeys(io) == Observe("keys", io)
GetStats(io) == Observe("get_stats", io)

\* Mutant: a background sweep removes the entries that expire while the
\* caller sleeps.
sleep_sweeps(d) ==
  /\ Step
  /\ now + d <= MaxTime
  /\ now' = now + d
  /\ cache' = SelectSeq(cache, LAMBDA e : ~is_expired(e, now + d))
  /\ last' = Call("sleep", EmptyKey, d, "ok", 0)
  /\ UNCHANGED <<stats, file, nfail, nkeys, useOrder, lastSet, ngets, save>>

\* The caller sleeps: the clock advances by d between two calls.
Sleep(d) ==
  /\ Step
  /\ now + d <= MaxTime
  /\ now' = now + d
  /\ last' = Call("sleep", EmptyKey, d, "ok", 0)
  /\ UNCHANGED <<cache, stats, file, nfail, nkeys, useOrder, lastSet, ngets, save>>

\* The outcomes of the writes of one operation: set can write twice (after
\* its cleanup and after the insertion), the others once.
IO1 == IF config.enable_persistence /\ nfail < MaxFail /\ ~save.steps
       THEN {<<TRUE, TRUE>>, <<FALSE, FALSE>>} ELSE {<<TRUE, TRUE>>}
IO2 == IF config.enable_persistence /\ nfail < MaxFail /\ ~save.steps
       THEN [1..2 -> BOOLEAN] ELSE {<<TRUE, TRUE>>}

Next ==
  \/ \E cfg \in {c \in Configs : c.enable_persistence} \cup ConfigsOff : Construct(cfg)
  \/ \E m \in MaxSizeArgs : ConfigInvalid(m)
  \/ \E k \in Usable, v \in Values, ttl \in TTLArgs, io \in IO2 : Set(k, v, ttl, io)
  \/ \E v \in Values : SetInvalid(v, PyNone)
  \/ \E k \in Usable, io \in IO1 : Get(k, PyNoneValue, io)
  \/ \E k \in Usable, io \in IO1 : Has(k, io)
  \/ \E k \in Usable, io \in IO1 : Delete(k, io)
  \/ \E io \in IO1 : Clear(io)
  \/ \E io \in IO1 : Size(io)
  \/ \E io \in IO1 : ListKeys(io)
  \/ \E io \in IO1 : GetStats(io)
  \/ \E d \in 1..MaxTime : Sleep(d)

Spec == Init /\ [][Next]_vars

\* ------------------------------------------------------------ save steps
\* Mutant: the save writes straight to the storage file.
temp_file_same(storage_file) == storage_file

\* temp_file = self.config.storage_file + '.tmp'
temp_file(storage_file) == PyStr(storage_file.v \o ".tmp")

\* The content of the file at a path, and the two files (storage file and
\* temp file) after a write of a content to a path.
ReadFile(path) == IF path = config.storage_file THEN file ELSE save.temp
Written(path, content) ==
  IF path = config.storage_file
  THEN [file |-> content, temp |-> save.temp]
  ELSE [file |-> file, temp |-> content]

\* A file just opened for writing: created or truncated, not yet JSON.
EmptyText == [kind |-> "partial", version |-> "", timestamp |-> 0, entries |-> <<>>]

\* The save in progress ends (it has replaced the storage file, or it has
\* raised and the except clause has logged it): the next save of the
\* operation starts, or the operation returns.
SaveEnds(temp) ==
  LET rest == Tail(save.todo)
  IN [save EXCEPT !.temp = temp, !.todo = rest,
                  !.pc = IF rest = <<>> THEN "idle" ELSE "open"]

SaveFrame ==
  UNCHANGED <<config, cache, stats, now, last, nops, budget, nkeys, useOrder,
              lastSet, ngets, threads, race, v2>>

\* open(temp_file, 'w')
SaveOpen ==
  /\ save.pc = "open"
  /\ LET d == Written(temp_file(config.storage_file), EmptyText)
     IN /\ file' = d.file
        /\ save' = [save EXCEPT !.temp = d.temp, !.pc = "dump"]
  /\ UNCHANGED nfail
  /\ SaveFrame

\* json.dump(data, f, indent=2) writes the entries one after the other; the
\* file is complete JSON when the last one is written and the file closed.
SaveDump ==
  /\ save.pc = "dump"
  /\ LET path == temp_file(config.storage_file)
         data == Head(save.todo)
         cur == ReadFile(path)
         n == Len(cur.entries)
         d == Written(path, IF n < Len(data.entries)
                            THEN [cur EXCEPT !.entries = Append(@, data.entries[n + 1])]
                            ELSE data)
     IN /\ file' = d.file
        /\ save' = [save EXCEPT !.temp = d.temp,
                                !.pc = IF n < Len(data.entries) THEN "dump" ELSE "replace"]
  /\ UNCHANGED nfail
  /\ SaveFrame

\* os.replace(temp_file, self.config.storage_file)
SaveReplace ==
  /\ save.pc = "replace"
  /\ LET path == temp_file(config.storage_file)
     IN /\ file' = ReadFile(path)
        /\ save' = SaveEnds(IF path = config.storage_file THEN save.temp ELSE AbsentFile)
  /\ UNCHANGED nfail
  /\ SaveFrame

\* The open, the dump or the replace raises: the files stay as they are and
\* the except clause ends the save.
SaveRaise ==
  /\ save.pc \in {"open", "dump", "replace"}
  /\ nfail < MaxFail
  /\ nfail' = nfail + 1
  /\ file' = file
  /\ save' = SaveEnds(save.temp)
  /\ SaveFrame

\* The process dies during a save and a new instance is constructed on the
\* storage file as the save left it.
Crash == save.pc # "idle" /\ Construct(config)

InitSave ==
  /\ config \in {c \in Configs : c.enable_persistence}
  /\ budget = MaxOpsSave
  /\ save = NoSave(TRUE)
  /\ threads = NoThreads
  /\ race = NoRace
  /\ v2 = NoV2
  /\ InitCache

NextSave ==
  \/ save.pc = "idle" /\ Next
  \/ SaveOpen
  \/ SaveDump
  \/ SaveReplace
  \/ SaveRaise
  \/ Crash

SpecSave == InitSave /\ [][NextSave]_vars

\* ------------------------------------------------------------ restart
\* A restart: the storage file is the snapshot a previous instance with
\* max_size = MaxSize wrote at time 1 after setting MaxSize keys, each with
\* ttl 1 or without ttl (Spec reaches these files by that many sets), and the
\* instance is the one then constructed on it, with any max_size.  Or the
\* storage file is absent, or it is not a snapshot (something else wrote it).
PriorStores ==
  {[i \in 1..MaxSize |-> CacheEntry(KeyNames[i], PyStr("old"), 1, x[i], 1)] :
     x \in [1..MaxSize -> {PyNone, PyFloat(2)}]}

\* Or the storage file is such a snapshot into which something else put, at
\* any position, an entry without 'expires_at'.
BadEntry ==
  [key |-> JsonDump(PyStr(KeyNames[NumKeys])), value |-> JsonDump(PyStr("old")),
   created_at |-> 1, last_accessed |-> 1]

InsertAt(s, p, x) == SubSeq(s, 1, p - 1) \o <<x>> \o SubSeq(s, p, Len(s))

MalformedFiles ==
  {[Snapshot(d, 1) EXCEPT !.entries = InsertAt(@, p, BadEntry)] :
     d \in PriorStores, p \in 1..(MaxSize + 1)}

InitRestart ==
  /\ now = 1
  /\ file \in {Snapshot(d, 1) : d \in PriorStores} \cup MalformedFiles
               \cup CorruptFiles \cup {AbsentFile}
  /\ config \in {c \in Configs : c.enable_persistence /\ c.default_ttl = PyNone}
                \cup ConfigsOff
  /\ cache = IF config.enable_persistence
             THEN load_from_storage(config, file, now) ELSE <<>>
  /\ stats = ZeroStats
  /\ last = Call("init", EmptyKey, Len(cache), "new", 0)
  /\ nops = 0
  /\ budget = MaxOpsRestart
  /\ save = NoSave(FALSE)
  /\ threads = NoThreads
  /\ race = NoRace
  /\ v2 = NoV2
  /\ nfail = 0
  /\ nkeys = MaxSize
  /\ useOrder = <<>>
  /\ lastSet = NoSets
  /\ ngets = 0

SpecRestart == InitRestart /\ [][Next]_vars

\* ------------------------------------------------------------ concurrent saves
\* Two instances bound to the same storage file are each in a
\* _save_to_storage of their store, in separate threads or processes.  The
\* directory maps the names of the storage file (race.final) and of the temp
\* file (race.tmp) to inodes, 0 for a name that does not exist; an open file
\* object refers to its inode, whatever the names do.  A file content is a
\* sequence of bytes, and a write replaces as many bytes as the text written
\* has, so the length of the text json.dump(data, f, indent=2) produces is
\* computed as the encoder lays the text out.
RECURSIVE Digits(_)
Digits(n) == IF n < 10 THEN 1 ELSE 1 + Digits(n \div 10)

\* repr of a float with an integer value: the digits and ".0", with the sign.
FloatLen(x) == IF x < 0 THEN 1 + Digits(0 - x) + 2 ELSE Digits(x) + 2

RECURSIVE SumLen(_)
SumLen(lens) == IF lens = <<>> THEN 0 ELSE Head(lens) + SumLen(Tail(lens))

\* A list or dict with indent: "[]" when empty, else the opening bracket,
\* each item on a line of its own (newline, indent spaces, the item), commas
\* between the items, and the closing bracket on a line of its own, indented
\* as the line the container starts on.
ContainerLen(lens, indent) ==
  IF lens = <<>> THEN 2
  ELSE 1 + SumLen([i \in 1..Len(lens) |-> 1 + indent + lens[i]])
         + (Len(lens) - 1) + 1 + (indent - 2) + 1

\* A member of a dict: the name in quotes, ": " and the value.
MemberLen(name, len) == Len(name) + 2 + 2 + len

\* One value: a string in quotes (the strings here need no escape), null, a
\* float, or the list a tuple became, whose items are the one-digit integers
\* of the value, separated by commas in j.v.
ValueLen(j, indent) ==
  CASE j.t = "string" -> Len(j.v) + 2
    [] j.t = "null" -> 4
    [] j.t = "number" -> FloatLen(j.v)
    [] j.t = "array" ->
         ContainerLen([i \in 1..((Len(j.v) + 1) \div 2) |-> 1], indent + 2)

\* An entry of data['entries'], in the order to_dict gives its members.
EntryLen(e, indent) ==
  ContainerLen(<<MemberLen("key", ValueLen(e.key, indent + 2)),
                 MemberLen("value", ValueLen(e.value, indent + 2)),
                 MemberLen("created_at", FloatLen(e.created_at)),
                 MemberLen("expires_at", ValueLen(e.expires_at, indent + 2)),
                 MemberLen("last_accessed", FloatLen(e.last_accessed))>>,
               indent + 2)

\* The number of bytes of the text of a snapshot.
TextLen(snapshot) ==
  ContainerLen(
    <<MemberLen("version", Len(snapshot.version) + 2),
      MemberLen("timestamp", FloatLen(snapshot.timestamp)),
      MemberLen("entries",
                ContainerLen([i \in 1..Len(snapshot.entries) |->
                                EntryLen(snapshot.entries[i], 4)], 4))>>,
    2)

\* The text of a snapshot, byte by byte: each byte is named by the text it
\* belongs to and its place in it.
Text(snapshot) == [p \in 1..TextLen(snapshot) |-> [text |-> snapshot, at |-> p]]

\* A byte no write has filled (a file reads 0 there).
Hole == [text |-> AbsentFile, at |-> 0]

\* json.load of a content: the snapshot if the content is the whole text of
\* one snapshot and nothing more; otherwise not JSON (an empty file, a text
\* cut short, a hole, or a whole text with bytes of an older, longer text
\* left behind it: a text ends with "}", so what is left is never blank and
\* json.load raises 'Extra data').
Parse(content) ==
  IF /\ content # <<>>
     /\ content[1].at = 1
     /\ content = Text(content[1].text)
  THEN content[1].text
  ELSE EmptyText

\* A write of bytes at offset off of a file: the bytes replace what is there
\* and extend the file; what lies beyond them stays, and a write past the
\* end leaves a hole.
WriteAt(content, off, bytes) ==
  LET end == off + Len(bytes)
      len == IF end > Len(content) THEN end ELSE Len(content)
  IN [p \in 1..len |->
        IF p > off /\ p <= end THEN bytes[p - off]
        ELSE IF p <= Len(content) THEN content[p]
        ELSE Hole]

\* The storage file as a reader finds it.
FileOf(r) == IF r.final = 0 THEN AbsentFile ELSE Parse(r.inodes[r.final])

RaceFrame ==
  UNCHANGED <<config, cache, stats, now, last, nops, budget, nfail, nkeys, useOrder,
              lastSet, ngets, save, threads, v2>>

\* open(temp_file, 'w'): truncates the temp file if the name exists, else
\* creates it.
RaceOpen(i) ==
  /\ race.writers[i].pc = "open"
  /\ LET fd == IF race.tmp # 0 THEN race.tmp ELSE Len(race.inodes) + 1
         inodes == IF race.tmp # 0 THEN [race.inodes EXCEPT ![fd] = <<>>]
                   ELSE Append(race.inodes, <<>>)
     IN race' = [race EXCEPT !.tmp = fd, !.inodes = inodes,
                             !.writers[i].pc = "dump",
                             !.writers[i].fd = fd,
                             !.writers[i].off = 0]
  /\ file' = FileOf(race')
  /\ RaceFrame

\* The buffer of a file object opened for writing (io.DEFAULT_BUFFER_SIZE).
BufferSize == 8192

\* json.dump(data, f, indent=2) and the end of the with block: a text
\* shorter than the buffer stays in the buffer of the file object until the
\* file is closed, and is then written in one write at the offset of the
\* file object, which is 0 since the open.  Every text here is shorter than
\* the buffer.
RaceDump(i) ==
  /\ race.writers[i].pc = "dump"
  /\ LET w == race.writers[i]
     IN /\ Len(w.data) < BufferSize
        /\ race' = [race EXCEPT
                      !.inodes[w.fd] = WriteAt(@, w.off, w.data),
                      !.writers[i].off = w.off + Len(w.data),
                      !.writers[i].pc = "replace"]
  /\ file' = FileOf(race')
  /\ RaceFrame

\* os.replace(temp_file, self.config.storage_file): the storage file name
\* now refers to the inode of the temp file and the temp name is gone.  If
\* the temp name does not exist it raises FileNotFoundError, which the
\* except clause logs.
RaceReplace(i) ==
  /\ race.writers[i].pc = "replace"
  /\ race' = IF race.tmp # 0
             THEN [race EXCEPT !.final = race.tmp, !.tmp = 0, !.writers[i].pc = "done"]
             ELSE [race EXCEPT !.writers[i].pc = "error"]
  /\ file' = FileOf(race')
  /\ RaceFrame

\* The stores the two instances hold when they save.
RaceStores == {SubSeq(d, 1, n) : d \in PriorStores, n \in 0..MaxSize}

InitRace ==
  /\ config \in {c \in Configs : /\ c.enable_persistence
                                 /\ c.default_ttl = PyNone
                                 /\ c.max_size = MaxSize}
  /\ budget = 0
  /\ save = NoSave(FALSE)
  /\ threads = NoThreads
  /\ v2 = NoV2
  /\ now = 1
  /\ file = AbsentFile
  /\ nops = 0
  /\ nkeys = MaxSize
  /\ nfail = 0
  /\ cache \in RaceStores
  /\ stats = ZeroStats
  /\ useOrder = <<>>
  /\ lastSet = NoSets
  /\ ngets = 0
  /\ last = Call("init", EmptyKey, 0, "new", 0)
  /\ \E other \in RaceStores :
       race = [final |-> 0, tmp |-> 0, inodes |-> <<>>,
               stores |-> <<cache, other>>,
               writers |-> [i \in 1..2 |->
                             [pc |-> "open", fd |-> 0, off |-> 0,
                              data |-> Text(Snapshot(<<cache, other>>[i], now))]]]

NextRace ==
  \/ \E i \in 1..2 : RaceOpen(i)
  \/ \E i \in 1..2 : RaceDump(i)
  \/ \E i \in 1..2 : RaceReplace(i)

SpecRace == InitRace /\ [][NextRace]_vars

\* ------------------------------------------------------------ concurrent calls
\* Several threads call the public operations of one instance without
\* persistence.  A call whose body is under `with self._lock:` takes two
\* steps: it acquires the lock and reads the store and the clock, computing
\* what it will leave and return; it then writes the store and the counters
\* back, releases the lock and returns.
ThreadCalls ==
  {[op |-> "set", key |-> k, value |-> v, ttl |-> ttl] :
     k \in Usable, v \in Values, ttl \in TTLArgs}
  \cup {[op |-> o, key |-> k, value |-> PyNoneValue, ttl |-> PyNone] :
          o \in {"get", "has", "delete"}, k \in Usable}
  \cup {[op |-> o, key |-> EmptyKey, value |-> PyNoneValue, ttl |-> PyNone] :
          o \in {"clear", "size", "keys", "get_stats"}}

\* The code of the call under the lock.
BodyOf(c) ==
  CASE c.op = "set" -> SetBody(c.key, c.value, c.ttl, <<TRUE, TRUE>>)
    [] c.op = "get" -> GetBody(c.key, PyNoneValue, <<TRUE, TRUE>>)
    [] c.op = "has" -> HasBody(c.key, <<TRUE, TRUE>>)
    [] c.op = "delete" -> DeleteBody(c.key, <<TRUE, TRUE>>)
    [] c.op = "clear" -> ClearBody(<<TRUE, TRUE>>)
    [] OTHER -> ObserveBody(c.op, <<TRUE, TRUE>>)

\* Mutant: the lock lets a thread in while another holds it.
lock_never_blocks(locked) == TRUE

\* self._lock.acquire(), the entry of `with self._lock:`, returns only when
\* the lock is free.
LockAcquire(locked) == ~locked

ThreadEnter(t, c) ==
  /\ nops < budget
  /\ nops' = nops + 1
  /\ threads.run[t].pc = "idle"
  /\ LockAcquire(threads.locked)
  /\ IF c.key = EmptyKey THEN nkeys' = nkeys ELSE Use(c.key)
  /\ threads' = [locked |-> TRUE,
                 run |-> [threads.run EXCEPT ![t] =
                            [pc |-> "in", call |-> c, at |-> now,
                             seen |-> [cache |-> cache, stats |-> stats],
                             ret |-> BodyOf(c)]]]
  /\ UNCHANGED <<config, cache, stats, now, file, last, budget, nfail, useOrder,
                 lastSet, ngets, save, race, v2>>

\* Mutant: a set that leaves by its except clause keeps the lock.
locked_after_error(path) == path = "Exception"

\* The state of self._lock once the `with self._lock:` block is left by the
\* given path (return or exception): __exit__ has released it.
LockedAfter(path) == FALSE

ThreadExit(t) ==
  /\ threads.run[t].pc = "in"
  /\ LET c == threads.run[t].call
         r == threads.run[t].ret
     IN /\ cache' = r.self.cache
        /\ stats' = r.self.stats
        /\ file' = r.self.file
        /\ last' = Call(c.op, c.key, r.result, r.path, r.self.saves)
        /\ ngets' = ngets + (IF c.op = "get" THEN 1 ELSE 0)
        /\ useOrder' =
             CASE c.op = "set" ->
                    Restrict(IF r.result THEN Touch(useOrder, c.key) ELSE useOrder,
                             r.self.cache)
               [] c.op = "get" /\ r.path = "hit" -> Touch(useOrder, c.key)
               [] c.op = "clear" -> <<>>
               [] OTHER -> Restrict(useOrder, r.self.cache)
        /\ lastSet' =
             CASE c.op = "set" ->
                    [k \in Keys |->
                       IF k = c.key /\ r.result
                       THEN [on |-> TRUE, value |-> c.value, t |-> threads.run[t].at,
                             arg |-> c.ttl,
                             ttl |-> IF c.ttl # PyNone THEN c.ttl ELSE config.default_ttl]
                       ELSE IF /\ k \in DictKeys(cache)
                               /\ k \notin DictKeys(r.self.cache)
                               /\ ~is_expired(DictGet(cache, k), threads.run[t].at)
                       THEN NoSet
                       ELSE lastSet[k]]
               [] c.op = "delete" -> [lastSet EXCEPT ![c.key] = NoSet]
               [] c.op = "clear" -> NoSets
               [] OTHER -> lastSet
  /\ threads' = [locked |-> LockedAfter(threads.run[t].ret.path),
                 run |-> [threads.run EXCEPT ![t] = IdleThread]]
  /\ UNCHANGED <<config, now, nops, budget, nfail, nkeys, save, race, v2>>

InitThreads ==
  /\ config \in {c \in Configs : ~c.enable_persistence /\ c.default_ttl = PyNone}
  /\ budget = MaxOpsThreads
  /\ save = NoSave(FALSE)
  /\ threads = NoThreads
  /\ race = NoRace
  /\ v2 = NoV2
  /\ InitCache

NextThreads ==
  \/ \E t \in Threads, c \in ThreadCalls : ThreadEnter(t, c)
  \/ \E t \in Threads : ThreadExit(t)
  \/ \E v \in Values : SetInvalid(v, PyNone)
  \/ \E d \in 1..MaxTime : Sleep(d)

SpecThreads == InitThreads /\ [][NextThreads]_vars

\* ------------------------------------------------------------ waiting for the lock
\* The threads as above, with the wait for the lock shown: a call first
\* reaches `with self._lock:` ("wait") and enters the block when it gets the
\* lock.  A behaviour makes MaxOpsFair calls of any kind and after them any
\* number of has and size calls, so a thread can find the lock taken again
\* and again.
FreeCalls ==
  {[op |-> "has", key |-> KeyNames[i], value |-> PyNoneValue, ttl |-> PyNone] :
     i \in 1..nkeys}
  \cup {[op |-> "size", key |-> EmptyKey, value |-> PyNoneValue, ttl |-> PyNone]}

ThreadCall(t, c) ==
  /\ threads.run[t].pc = "idle"
  /\ nops < budget \/ c \in FreeCalls
  /\ nops' = IF nops < budget THEN nops + 1 ELSE nops
  /\ IF c.key = EmptyKey THEN nkeys' = nkeys ELSE Use(c.key)
  /\ threads' = [threads EXCEPT !.run[t] = [IdleThread EXCEPT !.pc = "wait", !.call = c]]
  /\ UNCHANGED <<config, cache, stats, now, file, last, budget, nfail, useOrder,
                 lastSet, ngets, save, race, v2>>

ThreadAcquire(t) ==
  /\ threads.run[t].pc = "wait"
  /\ LockAcquire(threads.locked)
  /\ threads' = [locked |-> TRUE,
                 run |-> [threads.run EXCEPT ![t] =
                            [pc |-> "in", call |-> threads.run[t].call, at |-> now,
                             seen |-> [cache |-> cache, stats |-> stats],
                             ret |-> BodyOf(threads.run[t].call)]]]
  /\ UNCHANGED <<config, cache, stats, now, file, last, nops, budget, nfail, nkeys,
                 useOrder, lastSet, ngets, save, race, v2>>

InitFair ==
  /\ config \in {c \in Configs : ~c.enable_persistence /\ c.default_ttl = PyNone}
  /\ budget = MaxOpsFair
  /\ save = NoSave(FALSE)
  /\ threads = NoThreads
  /\ race = NoRace
  /\ v2 = NoV2
  /\ InitCache

NextFair ==
  \/ \E t \in Threads, c \in ThreadCalls : ThreadCall(t, c)
  \/ \E t \in Threads : ThreadAcquire(t)
  \/ \E t \in Threads : ThreadExit(t)
  \/ \E d \in 1..MaxTime : Sleep(d)

\* The scheduler is fair: a thread that can leave the block does, and a
\* thread that finds the lock free again and again gets it.
SpecFair ==
  /\ InitFair
  /\ [][NextFair]_vars
  /\ \A t \in Threads : WF_vars(ThreadExit(t)) /\ SF_vars(ThreadAcquire(t))

\* ------------------------------------------------------------ v2 beside v3
\* The Cache of v2.py, given every call the v3 instance is given, with the
\* same max_size and default_ttl and the same clock.  v2 is the record
\* [cache, returned, invalid, back]: its _cache, the value its last call
\* returned, whether it was ever given a key that v3 rejects, and whether
\* the clock was ever set back.
v2_CacheEntry(key, value, created_at, expires_at, last_accessed) ==
  [key |-> key, value |-> value, created_at |-> created_at,
   expires_at |-> expires_at, last_accessed |-> last_accessed]

\* self.expires_at is not None and time.time() > self.expires_at
v2_is_expired(entry, t) ==
  IF entry.expires_at = PyNone THEN FALSE ELSE t > entry.expires_at.v

v2_cleanup_expired(d) == SelectSeq(d, LAMBDA e : ~v2_is_expired(e, now))

\* Mutant: the eviction pops the entry at the end of the order.
v2_evict_lru_last(d) == IF d = <<>> THEN d ELSE SubSeq(d, 1, Len(d) - 1)

\* self._cache.popitem(last=False)
v2_evict_lru(d) == IF d = <<>> THEN d ELSE Tail(d)

\* `expires_at = current_time + effective_ttl if effective_ttl else None`
\* tests the truth value of the ttl: a ttl of 0 gives no expiry.
v2_set(self, key, value, ttl) ==
  LET eff == IF ttl # PyNone THEN ttl ELSE config.default_ttl
      d1 == v2_cleanup_expired(self.cache)
      d2 == IF key \notin DictKeys(d1) /\ Len(d1) >= config.max_size
            THEN v2_evict_lru(d1) ELSE d1
      expires_at == IF Truthy(eff) THEN PyFloat(now + eff.v) ELSE PyNone
      entry == v2_CacheEntry(key, value, now, expires_at, now)
  IN [self EXCEPT !.cache = DictSet(DictDel(d2, key), key, entry),
                  !.returned = PyNoneValue]

v2_get(self, key, default) ==
  IF key \notin DictKeys(self.cache) THEN [self EXCEPT !.returned = default]
  ELSE
    LET entry == DictGet(self.cache, key)
    IN IF v2_is_expired(entry, now)
       THEN [self EXCEPT !.cache = DictDel(self.cache, key), !.returned = default]
       ELSE [self EXCEPT
               !.cache = move_to_end(
                           DictSet(self.cache, key, [entry EXCEPT !.last_accessed = now]),
                           key),
               !.returned = entry.value]

v2_delete(self, key) ==
  IF key \in DictKeys(self.cache)
  THEN [self EXCEPT !.cache = DictDel(self.cache, key), !.returned = TRUE]
  ELSE [self EXCEPT !.returned = FALSE]

v2_has(self, key) ==
  IF key \notin DictKeys(self.cache) THEN [self EXCEPT !.returned = FALSE]
  ELSE IF v2_is_expired(DictGet(self.cache, key), now)
       THEN [self EXCEPT !.cache = DictDel(self.cache, key), !.returned = FALSE]
       ELSE [self EXCEPT !.returned = TRUE]

v2_clear(self) == [self EXCEPT !.cache = <<>>, !.returned = PyNoneValue]

v2_size(self) ==
  LET d == v2_cleanup_expired(self.cache)
  IN [self EXCEPT !.cache = d, !.returned = Len(d)]

v2_keys(self) ==
  LET d == v2_cleanup_expired(self.cache)
  IN [self EXCEPT !.cache = d, !.returned = [i \in 1..Len(d) |-> d[i].key]]

\* get_stats of v2 cleans up as size and keys do, and returns the size, the
\* max_size and, for each entry in the order of the store, its key, its age,
\* the time since its last access and the time it has left (`if
\* entry.expires_at else None`: none for an expires_at of None or 0).
v2_get_stats(self) ==
  LET d == v2_cleanup_expired(self.cache)
  IN [self EXCEPT
        !.cache = d,
        !.returned =
          [size |-> Len(d), max_size |-> config.max_size,
           entries |->
             [i \in 1..Len(d) |->
                [key |-> d[i].key,
                 age |-> now - d[i].created_at,
                 time_since_access |-> now - d[i].last_accessed,
                 ttl |-> IF Truthy(d[i].expires_at)
                         THEN PyFloat(d[i].expires_at.v - now)
                         ELSE PyNone]]]]

\* The ttl arguments of the calls made on both: absent or positive.
BothTTLArgs == {PyNone, PyFloat(1)}
\* The default_ttl both are built with.
BothDefaultTTLs == {PyNone, PyFloat(0 - 1), PyFloat(0), PyFloat(1)}

\* One call made on both: r is what the call does on the v3 instance, next2
\* what it does on the v2 one.  The history variables of the single
\* instance are not kept here.
Both(op, key, r, next2) ==
  /\ nops < budget
  /\ nops' = nops + 1
  /\ Leave(r.self)
  /\ last' = Call(op, key, r.result, r.path, r.self.saves)
  /\ v2' = next2
  /\ UNCHANGED <<config, now, budget, useOrder, lastSet, ngets, threads, race>>

BothSet(key, value, ttl) ==
  /\ Use(key)
  /\ Both("set", key, SetBody(key, value, ttl, <<TRUE, TRUE>>), v2_set(v2, key, value, ttl))

\* set with the empty key: v3 raises ValueError before it takes the lock,
\* v2 stores the entry.
BothSetInvalid(value) ==
  /\ UNCHANGED nkeys
  /\ Both("set", EmptyKey, Ret(Self, FALSE, "ValueError"),
          [v2_set(v2, EmptyKey, value, PyNone) EXCEPT !.invalid = TRUE])

BothGet(key) ==
  /\ Use(key)
  /\ Both("get", key, GetBody(key, PyNoneValue, <<TRUE, TRUE>>), v2_get(v2, key, PyNoneValue))

BothHas(key) ==
  /\ Use(key)
  /\ Both("has", key, HasBody(key, <<TRUE, TRUE>>), v2_has(v2, key))

BothDelete(key) ==
  /\ Use(key)
  /\ Both("delete", key, DeleteBody(key, <<TRUE, TRUE>>), v2_delete(v2, key))

BothClear ==
  /\ UNCHANGED nkeys
  /\ Both("clear", EmptyKey, ClearBody(<<TRUE, TRUE>>), v2_clear(v2))

BothSize ==
  /\ UNCHANGED nkeys
  /\ Both("size", EmptyKey, ObserveBody("size", <<TRUE, TRUE>>), v2_size(v2))

BothKeys ==
  /\ UNCHANGED nkeys
  /\ Both("keys", EmptyKey, ObserveBody("keys", <<TRUE, TRUE>>), v2_keys(v2))

\* get_stats on both: each runs its cleanup; what they return differs by
\* design (v3 counts, v2 lists its entries).
BothGetStats ==
  /\ UNCHANGED nkeys
  /\ Both("get_stats", EmptyKey, ObserveBody("get_stats", <<TRUE, TRUE>>), v2_get_stats(v2))

\* The clock both read is set back by d between two calls.
ClockBack(d) ==
  /\ nops < budget
  /\ nops' = nops + 1
  /\ now - d >= 0
  /\ now' = now - d
  /\ last' = Call("sleep", EmptyKey, 0 - d, "ok", 0)
  /\ v2' = [v2 EXCEPT !.back = TRUE]
  /\ UNCHANGED <<config, cache, stats, file, budget, nfail, nkeys, useOrder, lastSet,
                 ngets, save, threads, race>>

InitBoth ==
  /\ config \in {CacheConfig(m, d, PyNone, TRUE, TRUE) :
                   m \in {x \in MaxSizeArgs : ValidMaxSize(x)}, d \in BothDefaultTTLs}
  /\ budget = MaxOpsEquiv
  /\ save = NoSave(FALSE)
  /\ threads = NoThreads
  /\ race = NoRace
  /\ v2 = NoV2
  /\ InitCache

NextBoth ==
  \/ \E k \in Usable, v \in Values, ttl \in BothTTLArgs : BothSet(k, v, ttl)
  \/ \E v \in Values : BothSetInvalid(v)
  \/ \E k \in Usable : BothGet(k)
  \/ \E k \in Usable : BothHas(k)
  \/ \E k \in Usable : BothDelete(k)
  \/ BothClear
  \/ BothSize
  \/ BothKeys
  \/ BothGetStats
  \/ \E d \in 1..MaxTime : Sleep(d)
  \/ \E d \in 1..MaxTime : ClockBack(d)

SpecEquiv == InitBoth /\ [][NextBoth]_vars

\* ------------------------------------------------------------ properties
\* What the specification calls expired, a stored entry, and the keys a
\* step removes.
Expired(e, t) == e.expires_at.t = "float" /\ t > e.expires_at.v
Stored(d) == {d[i] : i \in 1..Len(d)}
Live(d, t) == SelectSeq(d, LAMBDA e : ~Expired(e, t))
Removed == DictKeys(cache) \ DictKeys(cache')
Range(q) == {q[i] : i \in 1..Len(q)}

\* C1: after construction and after every public operation the store holds
\* at most max_size entries.
C1_StoreWithinMaxSize == Len(cache) <= config.max_size

\* C2: from the empty store an instance starts with, every set (and every
\* sleep between calls) leaves the store within max_size, and size() then
\* returns at most max_size.
C2_SetsKeepSizeWithinMax ==
  /\ cache = <<>>
  /\ [][(Len(cache) <= config.max_size /\ last'.op \in {"set", "sleep", "size"}) =>
          /\ Len(cache') <= config.max_size
          /\ (last'.op = "size" => last'.result <= config.max_size)]_vars

\* C2 witness: size() returns max_size after more distinct keys were set
\* than the store holds.
C2_Witness ==
  /\ last.op = "size"
  /\ last.result = config.max_size
  /\ ~config.enable_persistence
  /\ stats.evictions > 0
  /\ nkeys > config.max_size

\* C3: a set of a key not in the store that finds the store full, with no
\* expired entry, removes exactly one entry: the key whose last successful
\* get or set is the oldest (has, delete, size, keys, get_stats are no use).
C3_EvictsLeastRecentlyUsed ==
  [][(/\ last'.op = "set"
      /\ last'.path # "ValueError"
      /\ last'.key \notin DictKeys(cache)
      /\ Len(cache) >= config.max_size
      /\ \A e \in Stored(cache) : ~Expired(e, now)
      /\ DictKeys(cache) = Range(useOrder)) =>
       Removed = {useOrder[1]}]_vars

\* C3 witness: max_size 2, set a, set b, get a, set c: b is evicted and a, c
\* remain.
C3_Witness ==
  /\ config.max_size = 2
  /\ last.op = "set"
  /\ last.key = "c"
  /\ stats.hits = 1
  /\ stats.evictions = 1
  /\ DictKeys(cache) = {"a", "c"}

\* C4: while the set(k, v, ttl) with ttl > 0 made at time t is in force (no
\* later set, delete, clear or eviction of k), get(k) returns v and has(k) is
\* True at every time now <= t + ttl; at every time now > t + ttl get(k)
\* returns the default, has(k) is False and size() with auto_cleanup does not
\* count k.
C4_TTLExpiry ==
  [][\A k \in Keys :
       LET s == lastSet[k]
           due == now > s.t + s.ttl.v
       IN (s.on /\ s.ttl.t = "float" /\ s.ttl.v > 0) =>
            /\ (last'.op = "get" /\ last'.key = k) =>
                 last'.result = (IF due THEN PyNoneValue ELSE s.value)
            /\ (last'.op = "has" /\ last'.key = k) => last'.result = ~due
            /\ (last'.op = "size" /\ config.auto_cleanup /\ due) =>
                 (k \notin DictKeys(cache') /\ last'.result = Len(cache'))]_vars

\* C4 witness: a get finds the entry of a set with ttl > 0 expired.
C4_Witness ==
  /\ last.op = "get"
  /\ last.path = "expired"
  /\ last.result = PyNoneValue
  /\ lastSet[last.key].on
  /\ lastSet[last.key].ttl.t = "float"
  /\ lastSet[last.key].ttl.v > 0

\* The entry a successful set(k, v, ttl) at the current time stores.
NewEntry(k, e) ==
  e = [key |-> k, value |-> lastSet'[k].value, created_at |-> now,
       expires_at |-> IF lastSet'[k].ttl = PyNone THEN PyNone
                      ELSE PyFloat(now + lastSet'[k].ttl.v),
       last_accessed |-> now]

\* A successful set of a key that is in the store and not expired.
UpdateStep ==
  /\ last'.op = "set"
  /\ last'.result = TRUE
  /\ last'.key \in DictKeys(cache)
  /\ ~Expired(DictGet(cache, last'.key), now)

\* C5 as stated: such a set replaces the value, leaves the number of entries
\* unchanged, evicts no other key, resets created_at, expires_at and
\* last_accessed from the time of the call and makes k most recently used.
C5_UpdateKeepsEntryCount ==
  [][UpdateStep =>
       /\ Len(cache') = Len(cache)
       /\ DictKeys(cache') = DictKeys(cache)
       /\ stats'.evictions = stats.evictions
       /\ NewEntry(last'.key, cache'[Len(cache')])]_vars

\* C5 amended: such a set replaces the value, evicts nothing and removes no
\* other entry that is not expired (with auto_cleanup the other entries that
\* are expired are removed, without it none is), so the number of entries
\* that are not expired is unchanged; it resets created_at, expires_at and
\* last_accessed from the time of the call and makes k most recently used.
C5_UpdateKeepsLiveEntries ==
  [][UpdateStep =>
       LET others == DictDel(cache, last'.key)
       IN /\ cache' = Append(IF config.auto_cleanup THEN Live(others, now) ELSE others,
                             cache'[Len(cache')])
          /\ stats'.evictions = stats.evictions
          /\ NewEntry(last'.key, cache'[Len(cache')])]_vars

\* C5 witness: an update made while the store is full.
C5_Witness ==
  /\ last.op = "set"
  /\ last.path = "update"
  /\ Len(cache) = config.max_size
  /\ config.max_size > 1
  /\ cache[Len(cache)].key = last.key
  /\ cache[Len(cache)].value = PyTuple("1,2")
  /\ cache[Len(cache)].created_at = now
  /\ now > 1

\* C6: a second cache constructed on the storage file of the first holds
\* every entry of the first that is not expired at load time, with the value
\* the first cache holds (stated for a first cache none of whose writes failed).
C6_PersistenceRoundTrip ==
  [][(last'.op = "init" /\ nfail = 0) =>
       \A e \in Stored(cache) :
         ~Expired(e, now) =>
           /\ e.key \in DictKeys(cache')
           /\ DictGet(cache', e.key).value = e.value]_vars

\* C7: a set of a key not in the store that finds the store full first
\* removes every expired entry, with or without auto_cleanup, and evicts only
\* if the store is still full afterwards; so when some stored entry is
\* expired, no entry that is not expired is removed.
C7_CleanupBeforeEvict ==
  [][(/\ last'.op = "set"
      /\ last'.path # "ValueError"
      /\ last'.key \notin DictKeys(cache)
      /\ Len(cache) >= config.max_size) =>
       /\ \A e \in Stored(cache) : Expired(e, now) => e.key \in Removed
       /\ stats'.evictions - stats.evictions =
            (IF Len(Live(cache, now)) >= config.max_size THEN 1 ELSE 0)
       /\ (\E e \in Stored(cache) : Expired(e, now)) =>
            \A e \in Stored(cache) : e.key \in Removed => Expired(e, now)]_vars

\* C8: has(k) is True iff k is stored and not expired; an entry found
\* expired is removed as get removes it (entry deleted, expirations + 1, one
\* save attempted when persistence is on); in every case the order and
\* last_accessed of the remaining entries and hits and misses are unchanged.
C8_HasIsReadOnly ==
  [][last'.op = "has" =>
       LET k == last'.key
           found == k \in DictKeys(cache)
           exp == found /\ Expired(DictGet(cache, k), now)
       IN /\ last'.result = (found /\ ~exp)
          /\ cache' = (IF exp THEN DictDel(cache, k) ELSE cache)
          /\ stats' = (IF exp THEN [stats EXCEPT !.expirations = @ + 1] ELSE stats)
          /\ last'.saves = (IF exp /\ config.enable_persistence THEN 1 ELSE 0)
          /\ (~exp => file' = file)]_vars

\* C8 witness: has finds its key expired and removes it while another entry
\* stays in the store.
C8_Witness ==
  /\ last.op = "has"
  /\ last.path = "expired"
  /\ last.result = FALSE
  /\ stats.expirations = 1
  /\ Len(cache) >= 1

\* C9: every get adds one to exactly one of hits and misses: to hits iff the
\* key is stored and not expired, and then it returns the stored value, makes
\* the key most recently used and stamps last_accessed; to misses otherwise,
\* and then it returns the default. No other operation changes hits or
\* misses, so hits + misses is the number of gets of the instance.
C9_GetCountsHitOrMiss ==
  /\ stats.hits + stats.misses = ngets
  /\ [][/\ last'.op = "get" =>
             LET k == last'.key
                 hit == k \in DictKeys(cache) /\ ~Expired(DictGet(cache, k), now)
             IN /\ stats'.hits = stats.hits + (IF hit THEN 1 ELSE 0)
                /\ stats'.misses = stats.misses + (IF hit THEN 0 ELSE 1)
                /\ hit =>
                     /\ last'.result = DictGet(cache, k).value
                     /\ cache' = Append(DictDel(cache, k),
                                        [DictGet(cache, k) EXCEPT !.last_accessed = now])
                /\ ~hit => last'.result = PyNoneValue
        /\ last'.op \notin {"get", "init"} =>
             (stats'.hits = stats.hits /\ stats'.misses = stats.misses)
        /\ stats'.hits + stats'.misses = ngets']_vars

\* C9 witness: a get that hit, then a get of the same key found expired.
C9_Witness ==
  /\ last.op = "get"
  /\ last.path = "expired"
  /\ stats.hits >= 1
  /\ stats.misses >= 1

\* The expired entries of a store, and whether the operation of the step
\* runs the cleanup pass.
ExpiredIn(d, t) == {e \in Stored(d) : Expired(e, t)}
CleanupPass ==
  CASE last'.op = "set" /\ last'.path # "ValueError" ->
         \/ config.auto_cleanup
         \/ (last'.key \notin DictKeys(cache) /\ Len(cache) >= config.max_size)
    [] last'.op \in {"size", "keys", "get_stats"} -> config.auto_cleanup
    [] OTHER -> FALSE

\* C10: expirations grows by one for each entry removed because it was found
\* expired: by one when get or has finds its key expired (and the caller
\* then gets the default / False), by the number of expired entries when set,
\* size, keys or get_stats runs its cleanup pass, and by nothing otherwise.
C10_ExpirationsCountRemovals ==
  [][LET k == last'.key
         inc == stats'.expirations - stats.expirations
         exp == ExpiredIn(cache, now)
         found == k \in DictKeys(cache) /\ DictGet(cache, k) \in exp
     IN CASE last'.op \in {"get", "has"} ->
               /\ inc = (IF found THEN 1 ELSE 0)
               /\ found =>
                    /\ Removed = {k}
                    /\ last'.result = (IF last'.op = "get" THEN PyNoneValue ELSE FALSE)
          [] last'.op = "init" -> stats'.expirations = 0
          [] OTHER ->
               /\ inc = (IF CleanupPass THEN Cardinality(exp) ELSE 0)
               /\ CleanupPass =>
                    \A e \in exp : e.key # k => e.key \in Removed]_vars

\* C10 witness: the cleanup pass of a set removes two expired entries.
C10_Witness ==
  /\ last.op = "set"
  /\ last.path = "insert"
  /\ stats.expirations = 2
  /\ stats.evictions = 0
  /\ Len(cache) = 1

\* C11: evictions grows by one for each entry removed by the LRU policy and
\* by nothing otherwise: it changes only in a set of a key not in the store
\* that finds the store still full once the expired entries are removed,
\* that set removes exactly one entry that is not expired, and it returns
\* True; delete, clear and removals for expiry leave the counter alone.
C11_EvictionsCountLRU ==
  [][LET inc == stats'.evictions - stats.evictions
         evicting == /\ last'.op = "set"
                     /\ last'.path # "ValueError"
                     /\ last'.key \notin DictKeys(cache)
                     /\ Len(Live(cache, now)) >= config.max_size
         lru == {e \in Stored(cache) : ~Expired(e, now) /\ e.key \in Removed}
     IN CASE last'.op = "init" -> stats'.evictions = 0
          [] last'.op = "set" ->
               /\ inc = (IF evicting THEN 1 ELSE 0)
               /\ Cardinality(lru) = inc
               /\ evicting => last'.result = TRUE
          [] OTHER -> inc = 0]_vars

\* C12: delete(k) is True iff k is in the store when called, expired or
\* not; afterwards k is not in the store, the other entries and their order
\* are as before, no counter changes, and a save is attempted iff it
\* returned True and persistence is on; delete of an absent key changes
\* nothing.
C12_DeleteRemovesOnlyKey ==
  [][last'.op = "delete" =>
       LET k == last'.key
           present == k \in DictKeys(cache)
       IN /\ last'.result = present
          /\ k \notin DictKeys(cache')
          /\ cache' = SelectSeq(cache, LAMBDA e : e.key # k)
          /\ stats' = stats
          /\ last'.saves = (IF present /\ config.enable_persistence THEN 1 ELSE 0)
          /\ ~present => (cache' = cache /\ file' = file)]_vars

\* C12 witness: a delete of a present key on a cache with persistence leaves
\* another entry in the store and the snapshot without the key.
C12_Witness ==
  /\ last.op = "delete"
  /\ last.result = TRUE
  /\ last.saves = 1
  /\ Len(cache) >= 1
  /\ file = Snapshot(cache, now)

\* C13: set with an empty key fails with ValueError and leaves the store
\* and its order, the four counters and the storage file exactly as they
\* were; in particular the expired entries stay in the store.
C13_InvalidKeyChangesNothing ==
  [][(last'.op = "set" /\ last'.key = EmptyKey) =>
       /\ last'.path = "ValueError"
       /\ cache' = cache
       /\ stats' = stats
       /\ file' = file
       /\ last'.saves = 0]_vars

\* C13 witness: the failing set was made on a cache with auto_cleanup and
\* persistence while the store held an expired entry, which is still there.
C13_Witness ==
  /\ last.op = "set"
  /\ last.path = "ValueError"
  /\ config.auto_cleanup
  /\ file.kind = "json"
  /\ \E e \in Stored(cache) : Expired(e, now)

\* C14: CacheConfig with max_size <= 0 raises ValueError and yields no
\* configuration, so no instance is built on one: every instance has
\* max_size >= 1, and the failed call leaves the running instance alone.
C14_MaxSizePositive ==
  /\ [](config.max_size >= 1)
  /\ [][last'.op = "CacheConfig" =>
          /\ (last'.result <= 0 <=> last'.path = "ValueError")
          /\ UNCHANGED <<config, cache, stats, file>>]_vars

\* C14 witness: CacheConfig(max_size=0) has raised while an instance with
\* entries is running.
C14_Witness ==
  /\ last.op = "CacheConfig"
  /\ last.result = 0
  /\ last.path = "ValueError"
  /\ Len(cache) >= 1

\* C15: clear() removes every entry and leaves the counters alone; on an
\* empty store (after a clear, or before any set) size() is 0, has(k) is
\* False for every k, and a further clear() returns normally and leaves the
\* empty store and the counters as they were.
C15_ClearEmptiesAndIsIdempotent ==
  [][/\ last'.op = "clear" =>
          /\ cache' = <<>>
          /\ stats' = stats
          /\ last'.path = "ok"
     /\ (cache = <<>> /\ last'.op = "size") => last'.result = 0
     /\ (cache = <<>> /\ last'.op = "has") => last'.result = FALSE
     /\ (last.op = "clear" /\ last'.op \in {"size", "has", "clear"}) =>
          (cache' = <<>> /\ stats' = stats)]_vars

\* C15 witness: a clear of a store that had served a get: the store is
\* empty and the hit is still counted.
C15_Witness ==
  /\ last.op = "clear"
  /\ cache = <<>>
  /\ stats.hits >= 1
  /\ nkeys >= 1

\* C16: with auto_cleanup on or off, keys() lists no key whose entry is
\* expired at the time of the call and size() is the number of entries that
\* are not expired.
C16_KeysAndSizeExcludeExpired ==
  [][/\ last'.op = "keys" =>
          Range(last'.result) = DictKeys(Live(cache, now))
     /\ last'.op = "size" =>
          last'.result = Len(Live(cache, now))]_vars

\* The operation of the step mutates the store: it inserts or updates a key,
\* removes an entry (delete, expiry, LRU eviction) or clears.
Mutates ==
  /\ last'.op \in {"set", "get", "has", "delete", "clear", "size", "keys", "get_stats"}
  /\ \/ Removed # {}
     \/ (last'.op = "set" /\ last'.result = TRUE)
     \/ last'.op = "clear"

\* C17: with persistence on, every operation that mutates the store attempts
\* a save after the mutation and before it returns: it calls the save at
\* least once, and unless a write fails the storage file then holds the
\* snapshot of the store the operation leaves.
C17_MutationIsSaved ==
  [][(config.enable_persistence /\ Mutates) =>
       /\ last'.saves >= 1
       /\ nfail' = nfail => file' = Snapshot(cache', now)]_vars

\* C18: a save writes the snapshot to the temp file and then renames it over
\* the storage file: at every step of a save, a raise or a crash at any step
\* included, the storage file is absent or a complete snapshot, and it
\* changes only in the rename, from the previous content to the complete new
\* snapshot.
C18_AtomicReplace ==
  /\ [](file.kind \in {"absent", "json"})
  /\ [][file' # file =>
          /\ save.pc = "replace"
          /\ file' = Head(save.todo)
          /\ file'.kind = "json"]_vars

\* C18 witness: in the middle of a dump the temp file holds part of the new
\* snapshot while the storage file still holds the complete previous one.
C18_Witness ==
  /\ save.pc = "dump"
  /\ save.temp.kind = "partial"
  /\ Len(save.temp.entries) = 1
  /\ Len(Head(save.todo).entries) = 2
  /\ file.kind = "json"
  /\ Len(file.entries) = 1

\* Two outcomes of an operation agree in everything but the storage file:
\* same store, same counters, same result and path, same number of saves.
SameInMemory(r1, r2) ==
  /\ r1.self.cache = r2.self.cache
  /\ r1.self.stats = r2.self.stats
  /\ r1.result = r2.result
  /\ r1.path = r2.path
  /\ r1.self.saves = r2.self.saves

\* C19: a write to the storage file that fails is not fatal: in every state
\* (those reached after a failed write included) every operation the
\* callers can make, whichever of its writes fail, returns the result and
\* leaves the store and counters that it leaves when no write fails, and a
\* save whose write fails leaves the storage file as it was.
C19_WriteFailureIsNotFatal ==
  config.enable_persistence =>
    \A io \in [1..2 -> BOOLEAN] \ {<<TRUE, TRUE>>} :
      LET ok == <<TRUE, TRUE>>
      IN /\ \A k \in Usable, v \in Values, ttl \in TTLArgs :
              SameInMemory(SetBody(k, v, ttl, io), SetBody(k, v, ttl, ok))
         /\ \A k \in Usable :
              /\ SameInMemory(GetBody(k, PyNoneValue, io), GetBody(k, PyNoneValue, ok))
              /\ SameInMemory(HasBody(k, io), HasBody(k, ok))
              /\ SameInMemory(DeleteBody(k, io), DeleteBody(k, ok))
         /\ SameInMemory(ClearBody(io), ClearBody(ok))
         /\ \A op \in {"size", "keys", "get_stats"} :
              SameInMemory(ObserveBody(op, io), ObserveBody(op, ok))
         /\ ~io[1] => save_to_storage(Self, io).file = file

\* C19 witness: the only write of a set failed: the set returned True, its
\* key is in the store and no storage file exists.
C19_Witness ==
  /\ nfail = 1
  /\ last.op = "set"
  /\ last.result = TRUE
  /\ last.saves = 1
  /\ last.key \in DictKeys(cache)
  /\ file = AbsentFile

\* C20: a construction with persistence on a storage file that is absent,
\* is not JSON, or is JSON of a wrong top-level shape (no mapping, or no
\* 'entries') does not raise and gives an instance with an empty store and
\* fresh counters, which is usable: a set with a valid key and ttl on it
\* returns True, stores the key and (its write succeeding) replaces the
\* storage file by a snapshot.
C20_LoadNeverFailsConstruction ==
  [][/\ (last'.op = "init" /\ file \in CorruptFiles \cup {AbsentFile}) =>
          /\ last'.path = "new"
          /\ cache' = <<>>
          /\ stats' = ZeroStats
          /\ file' = file
     /\ (/\ last.op = "init"
         /\ config.enable_persistence
         /\ file \in CorruptFiles \cup {AbsentFile}
         /\ last'.op = "set"
         /\ last'.path \notin {"ValueError", "Exception"}) =>
          /\ last'.result = TRUE
          /\ last'.key \in DictKeys(cache')
          /\ nfail' = nfail => file' = Snapshot(cache', now)]_vars

\* C20 witness: an instance was constructed on a storage file that is not
\* JSON, and its store is empty.
C20_Witness ==
  /\ last.op = "init"
  /\ last.path = "new"
  /\ nops = 1
  /\ config.enable_persistence
  /\ file.kind = "garbage"
  /\ cache = <<>>

\* ------------------------------------------------------------ load (C21..)
\* The entries of a snapshot that have every field of an entry.
WellFormed(entries) == SelectSeq(entries, LAMBDA e : EntryFields \subseteq DOMAIN e)

\* What the specification says a load leaves in the store: the entries of a
\* snapshot, rebuilt field by field, without those that is_expired() calls
\* expired at time t, in the order of the snapshot.  This is the expectation
\* the load is measured against, and not the load: load_from_storage is the
\* load, with the test of its own that the code makes (LoadEntries).  The
\* snapshots here hold each key once.
RECURSIVE ExpectedEntries(_, _)
ExpectedEntries(entries, t) ==
  IF entries = <<>> THEN <<>>
  ELSE LET entry == from_dict(Head(entries))
       IN IF Expired(entry, t)
          THEN ExpectedEntries(Tail(entries), t)
          ELSE <<entry>> \o ExpectedEntries(Tail(entries), t)

\* C21: a construction with persistence on a snapshot gives a store
\* with exactly the entries of the snapshot that are not expired at the time
\* of the load, each with its stored key, value, created_at, expires_at and
\* last_accessed, in the order of the snapshot.
C21_LoadSkipsExpiredKeepsOrder ==
  [][(/\ last'.op = "init"
      /\ last'.path = "new"
      /\ config'.enable_persistence
      /\ file.kind = "json"
      /\ WellFormed(file.entries) = file.entries) =>
       cache' = ExpectedEntries(file.entries, now)]_vars

\* C22: a construction with persistence on a snapshot with an entry that lacks a field skips
\* that entry and loads every well-formed entry that is not expired, those
\* before and those after it: the entries of the new store that are not
\* expired are the well-formed, non-expired entries of the snapshot, in the
\* order of the snapshot.
C22_BadEntryIsSkipped ==
  /\ [](nops = 0 /\ config.enable_persistence /\ file.kind = "json" =>
          Live(cache, now) = ExpectedEntries(WellFormed(file.entries), now))
  /\ [][(/\ last'.op = "init"
          /\ last'.path = "new"
          /\ config'.enable_persistence
          /\ file.kind = "json") =>
          Live(cache', now) = ExpectedEntries(WellFormed(file.entries), now)]_vars

\* C22 witness: an instance was constructed on a snapshot of three entries
\* whose second entry lacks a field, and it holds the first and the third.
C22_Witness ==
  /\ last.op = "init"
  /\ last.path = "new"
  /\ nops = 1
  /\ file.kind = "json"
  /\ Len(file.entries) = 3
  /\ FromDictRaises(file.entries[2]) = "KeyError"
  /\ Len(cache) = 2
  /\ cache[1].key = KeyNames[1]
  /\ cache[2].key = KeyNames[2]

\* C23: CacheConfig enables persistence exactly when the enable flag is true
\* and a storage file is given.  While persistence is disabled, with or
\* without a storage file configured, no operation calls the save or changes
\* the storage file, and a construction leaves the storage file unread: the
\* new store is empty whatever the file holds.
C23_DisabledPersistenceTouchesNoFile ==
  /\ [](\A m \in 1..MaxSize, d \in DefaultTTLs, s \in StorageFiles,
           f \in BOOLEAN, a \in BOOLEAN :
          CacheConfig(m, d, s, f, a).enable_persistence = (f /\ s # PyNone))
  /\ [](nops = 0 /\ ~config.enable_persistence => cache = <<>>)
  /\ [][~config'.enable_persistence =>
          /\ file' = file
          /\ last'.saves = 0
          /\ (last'.op = "init" /\ last'.path = "new") => cache' = <<>>]_vars

\* C23 witness: an instance with a storage file configured and persistence
\* disabled, constructed while the file held a snapshot with entries, has
\* stored a key, and the file is still that snapshot.
C23_Witness ==
  /\ ~config.enable_persistence
  /\ config.storage_file # PyNone
  /\ file.kind = "json"
  /\ file.timestamp = 1
  /\ Len(file.entries) = MaxSize
  /\ last.op = "set"
  /\ last.result = TRUE
  /\ now > 1
  /\ nops = 2
  /\ Len(cache) = 1

\* The threads inside the block under the lock.
Inside == {t \in Threads : threads.run[t].pc = "in"}

\* C24: with several threads calling one instance, at most one call is
\* inside the block under the lock at a time; while a call is inside, the
\* store and the counters stay as it read them, so what it writes back and
\* returns is what the operation does as one step on the store it finds (the
\* calls take effect one after the other, in the order they got the lock);
\* the store stays within max_size and hits + misses is the number of
\* completed gets.
C24_LockSerializesCalls ==
  /\ [](/\ Cardinality(Inside) <= 1
        /\ \A t \in Inside :
             threads.run[t].seen = [cache |-> cache, stats |-> stats]
        /\ Len(cache) <= config.max_size
        /\ stats.hits + stats.misses = ngets)
  /\ [][\A t \in Inside :
          (threads'.run[t].pc = "idle" /\ threads.run[t].at = now) =>
            LET r == BodyOf(threads.run[t].call)
            IN /\ cache' = r.self.cache
               /\ stats' = r.self.stats
               /\ last'.result = r.result]_vars

\* C24 witness: after one thread has completed a set and the clock has
\* advanced, another thread is inside a get of the stored key while the lock
\* is held.
C24_Witness ==
  /\ threads.locked
  /\ threads.run[2].pc = "in"
  /\ threads.run[2].call.op = "get"
  /\ threads.run[2].call.key \in DictKeys(cache)
  /\ threads.run[1].pc = "idle"
  /\ last.op = "sleep"
  /\ Len(cache) = 1
  /\ nops = 3

\* The ttl the specification selects for a set with argument arg.
SelectedTTL(arg) ==
  IF arg # PyNone THEN arg
  ELSE IF config.default_ttl # PyNone THEN config.default_ttl
  ELSE PyNone

\* C25: a successful set stores its entry with expires_at = time of the set
\* + ttl argument if the argument is given, else + default_ttl if the
\* configuration has one, else with no expires_at.  A later has of a key
\* whose set is still in force returns False exactly when the clock is past
\* the time of the set plus the ttl so selected: with default_ttl = D, a key
\* set without ttl and a key set with ttl = d < D at the same time, has is
\* True for the first and False for the second once more than d and at most
\* D have passed.
C25_TTLSelection ==
  [][/\ (last'.op = "set" /\ last'.result = TRUE) =>
          LET sel == SelectedTTL(lastSet'[last'.key].arg)
          IN DictGet(cache', last'.key).expires_at =
               (IF sel = PyNone THEN PyNone ELSE PyFloat(now + sel.v))
     /\ (last'.op = "has" /\ lastSet[last'.key].on) =>
          LET s == lastSet[last'.key]
              sel == SelectedTTL(s.arg)
          IN last'.result = ~(sel # PyNone /\ now > s.t + sel.v)]_vars

\* C25 witness: with default_ttl = 2, key a was set without ttl and key b
\* with ttl = 1 at time 1; at time 3 has(b) has returned False while a is
\* stored and not expired.
C25_Witness ==
  /\ config.default_ttl = PyFloat(2)
  /\ lastSet[KeyNames[1]].on
  /\ lastSet[KeyNames[1]].arg = PyNone
  /\ lastSet[KeyNames[1]].t = 1
  /\ lastSet[KeyNames[2]].on
  /\ lastSet[KeyNames[2]].arg = PyFloat(1)
  /\ lastSet[KeyNames[2]].t = 1
  /\ now = 3
  /\ last.op = "has"
  /\ last.key = KeyNames[2]
  /\ last.result = FALSE
  /\ KeyNames[1] \in DictKeys(cache)
  /\ ~is_expired(DictGet(cache, KeyNames[1]), now)
  /\ HasBody(KeyNames[1], <<TRUE, TRUE>>).result = TRUE

\* C26: while two instances save to the same storage file, and after both
\* saves have ended, the storage file is absent (not yet written) or holds
\* the complete snapshot of one of the two instances.
C26_LastWriterWins ==
  \/ file.kind = "absent"
  \/ \E i \in 1..2 : file = Snapshot(race.stores[i], now)

\* The keys of a store in its order, and the key a step moves to the
\* most-recently-used end: that of a set that succeeds or of a get that hits.
KeySeq(d) == [i \in 1..Len(d) |-> d[i].key]
MovedKey ==
  IF \/ (last'.op = "set" /\ last'.result = TRUE)
     \/ (last'.op = "get" /\ last'.path = "hit")
  THEN {last'.key} ELSE {}

\* The calls the specification lists as failed or no-op.
NoOpCall ==
  \/ last'.op \in {"get", "has", "delete"} /\ last'.key \notin DictKeys(cache)
  \/ /\ last'.op = "has"
     /\ last'.key \in DictKeys(cache)
     /\ ~Expired(DictGet(cache, last'.key), now)
  \/ /\ last'.op \in {"size", "keys", "get_stats"}
     /\ \A e \in Stored(cache) : ~Expired(e, now)

\* C27: a call changes the order of the store only by moving the key of a
\* successful set or of a get that hits to the most-recently-used end: the
\* keys that stay and are not moved keep their relative order and their
\* entries; a get, has or delete of a missing key, a has of a present key
\* that is not expired, and size, keys and get_stats when nothing is expired
\* leave the store as it is.
C27_OrderChangesOnlyOnGetAndSet ==
  [][last'.op # "init" =>
       /\ LET keep == (DictKeys(cache) \cap DictKeys(cache')) \ MovedKey
          IN SelectSeq(KeySeq(cache), LAMBDA k : k \in keep)
               = SelectSeq(KeySeq(cache'), LAMBDA k : k \in keep)
       /\ MovedKey # {} => cache'[Len(cache')].key = last'.key
       /\ \A e \in Stored(cache') : e.key \notin MovedKey => e \in Stored(cache)
       /\ NoOpCall => cache' = cache]_vars

\* C27 witness: after sets of a and b, a get of a has hit and a is now at
\* the most-recently-used end, behind b.
C27_Witness ==
  /\ last.op = "get"
  /\ last.path = "hit"
  /\ last.key = KeyNames[1]
  /\ nops = 3
  /\ Len(cache) = 2
  /\ cache[1].key = KeyNames[2]
  /\ cache[2].key = KeyNames[1]

\* C28: every stored entry whose set is still in force has created_at = the
\* time of that set and expires_at absent (no ttl in effect) or = created_at
\* + the ttl in effect at that set, so a negative ttl gives expires_at <
\* created_at; a set with ttl = 0 on any reachable store gives expires_at =
\* created_at; and no call other than a successful set of the same key
\* changes the created_at or the expires_at of an entry that stays stored.
C28_ExpiryFixedAtSet ==
  /\ [](/\ \A e \in Stored(cache) :
             lastSet[e.key].on =>
               /\ e.created_at = lastSet[e.key].t
               /\ e.expires_at =
                    (IF lastSet[e.key].ttl = PyNone THEN PyNone
                     ELSE PyFloat(e.created_at + lastSet[e.key].ttl.v))
        /\ \A k \in Usable :
             LET r == SetBody(k, PyStr("old"), PyFloat(0), <<TRUE, TRUE>>)
                 e == DictGet(r.self.cache, k)
             IN /\ r.result = TRUE
                /\ e.created_at = now
                /\ e.expires_at = PyFloat(e.created_at))
  /\ [][last'.op # "init" =>
          \A e \in Stored(cache) : \A f \in Stored(cache') :
            (/\ e.key = f.key
             /\ ~(last'.op = "set" /\ last'.key = e.key /\ last'.result = TRUE)) =>
               /\ f.created_at = e.created_at
               /\ f.expires_at = e.expires_at]_vars

\* C28 witness: a key set with ttl = 1 at time 1 was read by a get that hit
\* at time 2; its created_at is still 1 and its expires_at still 2.
C28_Witness ==
  /\ last.op = "get"
  /\ last.path = "hit"
  /\ now = 2
  /\ lastSet[last.key].on
  /\ lastSet[last.key].ttl = PyFloat(1)
  /\ LET e == DictGet(cache, last.key)
     IN /\ e.created_at = 1
        /\ e.expires_at = PyFloat(2)
        /\ e.last_accessed = 2

\* C29: in every reachable state the entries of the store are in
\* non-decreasing order of last_accessed, so the entry _evict_lru selects by
\* scanning for the first minimum of last_accessed is the head of the store.
C29_OrderAgreesWithLastAccessed ==
  /\ \A i \in 1..(Len(cache) - 1) : cache[i].last_accessed <= cache[i + 1].last_accessed
  /\ cache # <<>> => evict_lru(Self).cache = Tail(cache)

\* C29 witness: a get that hit at a later time moved the key first set to
\* the end of a store of two entries, whose last_accessed now differ.
C29_Witness ==
  /\ last.op = "get"
  /\ last.path = "hit"
  /\ Len(cache) = 2
  /\ cache[2].key = KeyNames[1]
  /\ cache[1].last_accessed < cache[2].last_accessed
  /\ cache[2].last_accessed = now

\* C30: no call on an instance lowers hits, misses, evictions or
\* expirations: every step other than the construction of a new instance
\* leaves each counter as it is or adds to it, clear and delete included.
C30_CountersNeverDecrease ==
  [][last'.op # "init" =>
       \A c \in {"hits", "misses", "evictions", "expirations"} :
         stats'[c] >= stats[c]]_vars

\* C30 witness: after an eviction and a hit, a delete has removed the last
\* key, and the counters still show the eviction and the hit.
C30_Witness ==
  /\ last.op = "delete"
  /\ last.result = TRUE
  /\ cache = <<>>
  /\ stats.evictions = 1
  /\ stats.hits = 1

\* C31: the lock is held exactly while a call is inside its block (no call
\* inside waits for it again, and every exit, by return or by exception,
\* releases it), and under a fair scheduler every call that waits for the
\* lock or is inside the block returns.
C31_CallsFinishAndRelease ==
  /\ [](threads.locked <=> Inside # {})
  /\ [][\A t \in Inside : threads'.run[t].pc = "idle" => ~threads'.locked]_vars
  /\ \A t \in Threads :
       (threads.run[t].pc \in {"wait", "in"}) ~> (threads.run[t].pc = "idle")

\* C31 witness: thread 1 waits for the lock while thread 2 is inside a set
\* that will leave by its except clause.
C31_Witness ==
  /\ threads.locked
  /\ threads.run[1].pc = "wait"
  /\ threads.run[2].pc = "in"
  /\ threads.run[2].call.op = "set"
  /\ threads.run[2].ret.path = "Exception"

\* C32: whenever a call changes the storage file, the file is a snapshot
\* with the version tag, the time of the save as timestamp, and a list of
\* entries that each have key, value, created_at, expires_at and
\* last_accessed and no two of which have the same key; if no write of the
\* call failed and the call ended with its save (it did not leave by the
\* except clause of set after the save of its cleanup), the list has one
\* entry for each entry of the store the call leaves, in the order of the
\* store (least recently used first), with that entry's key, value,
\* created_at, expires_at and last_accessed.
C32_SnapshotListsStore ==
  [][(file' # file /\ last'.op # "init") =>
       /\ file'.kind = "json"
       /\ file'.version = "1.0"
       /\ file'.timestamp = now
       /\ \A i \in 1..Len(file'.entries) :
            /\ EntryFields \subseteq DOMAIN file'.entries[i]
            /\ \A j \in 1..Len(file'.entries) :
                 file'.entries[i].key = file'.entries[j].key => i = j
       /\ (nfail' = nfail /\ last'.path # "Exception") =>
            /\ Len(file'.entries) = Len(cache')
            /\ \A i \in 1..Len(cache') :
                 /\ JsonLoad(file'.entries[i].key) = PyStr(cache'[i].key)
                 /\ file'.entries[i].value = JsonDump(cache'[i].value)
                 /\ file'.entries[i].created_at = cache'[i].created_at
                 /\ JsonLoad(file'.entries[i].expires_at) = cache'[i].expires_at
                 /\ file'.entries[i].last_accessed = cache'[i].last_accessed]_vars

\* C32 witness: a set at a later time has written a snapshot of two entries
\* whose last_accessed differ, the older one first.
C32_Witness ==
  /\ last.op = "set"
  /\ last.result = TRUE
  /\ file.kind = "json"
  /\ file.timestamp = now
  /\ Len(file.entries) = 2
  /\ file.entries[1].last_accessed < file.entries[2].last_accessed
  /\ Len(cache) = 2


\* C33: a key leaves the store of an instance only in one of four ways: a
\* delete of that key; its entry being expired when a get or has of the key
\* or a cleanup pass (of size, keys, get_stats, or of a set with auto_cleanup
\* or of a key not in the store that finds it full) looks at it; the LRU
\* eviction of a set of a key not in the store (once the cleanup of
\* auto_cleanup has run) that finds max_size or more entries that are not
\* expired; clear.  So get, has, size, keys and get_stats remove only
\* expired entries, and a sleep removes nothing.
C33_RemovalHasACause ==
  [][/\ last'.op # "init" =>
          \A e \in Stored(cache) : e.key \in Removed =>
            \/ last'.op = "delete" /\ last'.key = e.key
            \/ last'.op = "clear"
            \/ /\ Expired(e, now)
               /\ \/ last'.op \in {"get", "has"} /\ last'.key = e.key
                  \/ last'.op \in {"size", "keys", "get_stats"} /\ config.auto_cleanup
                  \/ /\ last'.op = "set"
                     /\ last'.path # "ValueError"
                     /\ \/ config.auto_cleanup
                        \/ /\ last'.key \notin DictKeys(cache)
                           /\ Len(cache) >= config.max_size
            \/ /\ ~Expired(e, now)
               /\ last'.op = "set"
               /\ last'.path # "ValueError"
               /\ last'.key \notin
                    DictKeys(IF config.auto_cleanup THEN Live(cache, now) ELSE cache)
               /\ Len(Live(cache, now)) >= config.max_size
     /\ last'.op \in {"get", "has", "size", "keys", "get_stats"} =>
          \A e \in Stored(cache) : e.key \in Removed => Expired(e, now)
     /\ now' # now => cache' = cache]_vars

\* C33 witness: a get_stats with auto_cleanup has removed an expired entry
\* and left the entry that is not expired, after a sleep that removed nothing.
C33_Witness ==
  /\ last.op = "get_stats"
  /\ config.auto_cleanup
  /\ stats.expirations = 1
  /\ Len(cache) = 1
  /\ ~Expired(cache[1], now)
  /\ now > 0


\* C34: with persistence enabled and no write failed, once a public
\* operation has returned the storage file lists exactly the keys of the
\* store, each with the value (as json writes it), created_at and expires_at
\* of its entry in the store; last_accessed and the order may differ.
C34_SnapshotAgreesWithStore ==
  (config.enable_persistence /\ nfail = 0 /\ last.op # "init") =>
    LET persisted == {<<JsonLoad(e.key), e.value, e.created_at, JsonLoad(e.expires_at)>> :
                        e \in Range(file.entries)}
        stored == {<<PyStr(e.key), JsonDump(e.value), e.created_at, e.expires_at>> :
                     e \in Stored(cache)}
    IN persisted = stored


\* C35: when set(k, v) returns True, k is the last key of the store (the
\* most recently used) and its entry holds v; of the entries that were not
\* expired at the call, at most one has left the store, none has when fewer
\* than max_size of the stored entries were not expired, and k itself is
\* not among the keys that left.
C35_SetInsertsAndEvictsAtMostOne ==
  [][(last'.op = "set" /\ last'.result = TRUE) =>
       LET k == last'.key
           gone == {e \in Stored(cache) : ~Expired(e, now) /\ e.key \in Removed}
       IN /\ cache' # <<>>
          /\ cache'[Len(cache')].key = k
          /\ cache'[Len(cache')].value = lastSet'[k].value
          /\ lastSet'[k].on /\ lastSet'[k].t = now
          /\ Cardinality(gone) <= 1
          /\ Len(Live(cache, now)) < config.max_size => gone = {}
          /\ k \notin Removed]_vars

\* C35 witness: a set of a third key into a full store of two entries that
\* are not expired has returned True: one of the two is gone and the new key
\* is last.
C35_Witness ==
  /\ last.op = "set"
  /\ last.result = TRUE
  /\ last.path = "insert"
  /\ config.max_size = 2
  /\ stats.evictions = 1
  /\ stats.expirations = 0
  /\ Len(cache) = 2
  /\ cache[2].key = last.key
  /\ nkeys = 3


\* C36 as stated: on every sequence of calls made on both, the v2 and the
\* v3 Cache hold the same keys in the same order, and get, has, delete,
\* size and keys return the same on both.
C36_V2AndV3Agree ==
  /\ KeySeq(cache) = KeySeq(v2.cache)
  /\ last.op \in {"get", "has", "delete", "size", "keys"} => last.result = v2.returned

\* C36, amended: the same, for instances whose default_ttl is not 0,
\* sequences whose keys are all non-empty strings and a clock that is never
\* set back.
C36_V2AndV3AgreeOnValidCalls ==
  (config.default_ttl # PyFloat(0) /\ ~v2.invalid /\ ~v2.back) =>
    /\ KeySeq(cache) = KeySeq(v2.cache)
    /\ last.op \in {"get", "has", "delete", "size", "keys"} => last.result = v2.returned

\* C36 witness: with max_size 2 and a default_ttl that is not 0, after set a,
\* set b, get a, set c both have evicted b (v3 as the least last_accessed, v2
\* as the head) and hold a, c.
C36_Witness ==
  /\ config.default_ttl # PyFloat(0)
  /\ ~v2.invalid
  /\ ~v2.back
  /\ config.max_size = 2
  /\ last.op = "set"
  /\ stats.evictions = 1
  /\ stats.hits = 1
  /\ KeySeq(cache) = <<"a", "c">>
  /\ KeySeq(v2.cache) = <<"a", "c">>

====
